---- MODULE Spec2Model ----
(***************************************************************************)
(* A model of the shed card game engine (shed_game.py).                    *)
(*                                                                         *)
(* The GameState object is the record `game`; every method of GameState is *)
(* an operator that maps a game record to the record the method leaves     *)
(* behind, together with what the method returns and whether it raised.    *)
(* The variables next to `game` are the driver's view of the last call;    *)
(* `acted` is the set of the values turn_index has had since round_index    *)
(* last went up.  `prob_model` is the ProbabilisticModel object and `node`  *)
(* the Node built on it (node.py).  `lobbies` is the dictionary of          *)
(* shed_server.py, `heap` the Lobby objects it has constructed and `tasks`  *)
(* the coroutines the server runs.                                         *)
(*                                                                         *)
(* Cards: the string 'h05' is the number 105: the suit letter (h, d, c, s) *)
(* is the hundreds digit 1..4 and the two digits after it are the rank,    *)
(* as in the string.  None is 0, the pickup '#' is -1, the burn mark '*'   *)
(* is -2 and the empty string '' is -3.                                    *)
(***************************************************************************)
EXTENDS Integers, Sequences, FiniteSets, TLC

VARIABLES game, op, args, raised, options, calls, acted, prob_model, node,
          lobbies, heap, tasks

vars == <<game, op, args, raised, options, calls, acted, prob_model, node,
          lobbies, heap, tasks>>

(***************************************************************************)
(* Bounds of the model.                                                    *)
(***************************************************************************)
\* the table plays with the first DeckSize cards of DeckPick
DeckSize == 9
\* cards dealt to each of a player's three piles (the program deals 3)
DealCount == 1
\* rosters of 0..MaxPlayers players
MaxPlayers == 3
\* shuffles are drawn from the seeds 1..MaxSeed
MaxSeed == 3
\* complete_turn is called with at most MaxActions actions
MaxActions == 2
\* calls a driver makes outside the loop of __main__
MaxCalls == 1

(***************************************************************************)
(* Values.                                                                 *)
(***************************************************************************)
None == 0
PICKUP == -1
BURNED == -2
NOTHING == -3

Card(suit, rank) == suit * 100 + rank

get_card_rank(card) == IF card = None THEN None ELSE card % 100

\* TableCards.__init__: the 52 cards, rank-major, suits h, d, c, s
FullDeck == [k \in 1..52 |-> Card(((k - 1) % 4) + 1, 2 + ((k - 1) \div 4))]

\* the cards the model's table holds, in the order of preference
DeckPick ==
    << 105, 205, 305, 405, 110, 102, 103, 107, 109, 112, 209, 104,
       212, 114, 202, 210, 106, 206, 203, 207, 108, 111, 113, 214 >>

InPlay(card) == \E i \in 1..DeckSize : i <= Len(DeckPick) /\ DeckPick[i] = card

NewDeck == SelectSeq(FullDeck, InPlay)

Cards == {NewDeck[i] : i \in 1..Len(NewDeck)}

PlayerNames == <<"Ben0", "Ben1", "Ben2", "Ben3", "Ben4">>

\* fault: the 7 has lost its ability to constrain the next card
magic_cards_without_lower_than ==
    (2 :> [magic_ability |-> "RESET", playable_on |-> 2..14, is_effect_now |-> FALSE])
 @@ (3 :> [magic_ability |-> "INVISIBLE", playable_on |-> 2..14, is_effect_now |-> FALSE])
 @@ (7 :> [magic_ability |-> "RESET", playable_on |-> 2..7, is_effect_now |-> FALSE])
 @@ (10 :> [magic_ability |-> "BURN", playable_on |-> 2..14, is_effect_now |-> TRUE])

magic_cards ==
    (2 :> [magic_ability |-> "RESET", playable_on |-> 2..14, is_effect_now |-> FALSE])
 @@ (3 :> [magic_ability |-> "INVISIBLE", playable_on |-> 2..14, is_effect_now |-> FALSE])
 @@ (7 :> [magic_ability |-> "LOWER_THAN", playable_on |-> 2..7, is_effect_now |-> FALSE])
 @@ (10 :> [magic_ability |-> "BURN", playable_on |-> 2..14, is_effect_now |-> TRUE])

(***************************************************************************)
(* Python lists.                                                           *)
(***************************************************************************)
ToSet(list) == {list[i] : i \in 1..Len(list)}

In(x, list) == \E i \in 1..Len(list) : list[i] = x

\* list.index(x)
IndexOf(x, list) == CHOOSE i \in 1..Len(list) : list[i] = x /\ \A j \in 1..(i - 1) : list[j] # x

\* list.remove(x): the first occurrence goes
Remove(x, list) ==
    LET i == IndexOf(x, list)
    IN  SubSeq(list, 1, i - 1) \o SubSeq(list, i + 1, Len(list))

\* list.pop(): the list without its last element
Front(list) == SubSeq(list, 1, Len(list) - 1)

Last(list) == list[Len(list)]

Min(S) == CHOOSE x \in S : \A y \in S : x <= y

(***************************************************************************)
(* PlayerState and TableCards.                                             *)
(***************************************************************************)
PlayerState(name) ==
    [name |-> name, cards_hand |-> <<>>, cards_face_up |-> <<>>, cards_face_down |-> <<>>]

is_winner(player_state) ==
    ~(player_state.cards_hand # <<>> \/ player_state.cards_face_up # <<>>
        \/ player_state.cards_face_down # <<>>)

TableCards == [deck |-> NewDeck, stack_discard |-> <<>>, stack_play |-> <<>>]

\* the generator behind random.Random(seed): a stream of numbers fixed by the seed
NextRandom(s) == (s * 21 + 3) % 101

Swap(x, i, j) == [x EXCEPT ![i] = x[j], ![j] = x[i]]

\* random.shuffle: for i from len - 1 down to 1, swap x[i] with x[randbelow(i + 1)]
RECURSIVE ShuffleFrom(_, _, _)
ShuffleFrom(x, i, s) ==
    IF i < 1 THEN x
    ELSE ShuffleFrom(Swap(x, i + 1, (NextRandom(s) % (i + 1)) + 1), i - 1, NextRandom(s))

deck_shuffle(deck, seed) == ShuffleFrom(deck, Len(deck) - 1, seed)

(***************************************************************************)
(* GameState.                                                              *)
(***************************************************************************)
\* GameState.__init__ for a roster of n players
GameState(n) ==
    [ player_states   |-> [i \in 1..n |-> PlayerState(PlayerNames[i])],
      table_cards     |-> TableCards,
      start_index     |-> 0,
      turn_index      |-> 0,
      round_index     |-> 0,
      game_start_time |-> NOTHING,
      n_rounds        |-> 0,
      round_actions   |-> <<>>,
      same_cards_count |-> 0,
      last_cards      |-> <<>>,
      is_game_over    |-> FALSE,
      winning_order   |-> <<>> ]

NumPlayers(g) == Len(g.player_states)

\* the player whose turn it is: player_states[turn_index]
Actor(g) == g.player_states[g.turn_index + 1]

\* create_round: a fresh action list per player becomes the last round
create_round(g) ==
    [g EXCEPT !.n_rounds = @ + 1,
              !.round_actions = [i \in 1..NumPlayers(g) |-> <<>>]]

\* append_player_actions: rounds[round_index][turn_index].append(action)
append_player_actions(g, action) ==
    [g EXCEPT !.round_actions[g.turn_index + 1] = Append(@, action)]

\* fault: reads the player's first action of the round, not the last
get_player_first_action(g) ==
    LET player_history == g.round_actions[g.turn_index + 1]
    IN  IF player_history = <<>> THEN None ELSE player_history[1]

get_player_last_action(g) ==
    LET player_history == g.round_actions[g.turn_index + 1]
    IN  IF player_history = <<>> THEN None ELSE Last(player_history)

\* deal_cards, pop by pop: pop m of player p goes to hand, face_up, face_down in
\* turn; deck.pop() on an empty deck raises and leaves the deal where it stands
RECURSIVE DealFrom(_, _)
DealFrom(g, m) ==
    IF m >= 3 * DealCount * NumPlayers(g) THEN [g |-> g, err |-> FALSE]
    ELSE IF g.table_cards.deck = <<>> THEN [g |-> g, err |-> TRUE]
    ELSE LET p    == (m \div (3 * DealCount)) + 1
             card == Last(g.table_cards.deck)
             g1   == [g EXCEPT !.table_cards.deck = Front(@)]
             g2   == CASE m % 3 = 0 -> [g1 EXCEPT !.player_states[p].cards_hand = Append(@, card)]
                       [] m % 3 = 1 -> [g1 EXCEPT !.player_states[p].cards_face_up = Append(@, card)]
                       [] OTHER     -> [g1 EXCEPT !.player_states[p].cards_face_down = Append(@, card)]
         IN  DealFrom(g2, m + 1)

deal_cards(g) == DealFrom(g, 0)

start_game(g, seed) ==
    LET Open(dealt) ==
            IF dealt.err THEN [g |-> dealt.g, err |-> TRUE]
            ELSE [g   |-> create_round([create_round(dealt.g) EXCEPT !.round_index = @ + 1]),
                  err |-> FALSE]
    IN  Open(deal_cards([g EXCEPT !.game_start_time = 1,
                                  !.table_cards.deck = deck_shuffle(@, seed),
                                  !.n_rounds = 0,
                                  !.round_actions = <<>>]))

get_lowest_card(g, player_state) ==
    LET ranks == {get_card_rank(player_state.cards_hand[i]) : i \in 1..Len(player_state.cards_hand)}
                    \ DOMAIN magic_cards
    IN  IF ranks = {} THEN 15 ELSE Min(ranks)

\* fault: of the players who tie for the lowest card, the last one leads
choose_last_player(g) ==
    LET lowest_cards == [i \in 1..NumPlayers(g) |-> get_lowest_card(g, g.player_states[i])]
        min_card     == Min(ToSet(lowest_cards))
    IN  IF min_card = 15 THEN g.turn_index
        ELSE (CHOOSE i \in 1..NumPlayers(g) :
                /\ lowest_cards[i] = min_card
                /\ \A j \in (i + 1)..NumPlayers(g) : lowest_cards[j] # min_card) - 1

choose_first_player(g) ==
    LET lowest_cards == [i \in 1..NumPlayers(g) |-> get_lowest_card(g, g.player_states[i])]
        min_card     == Min(ToSet(lowest_cards))
    IN  IF min_card = 15 THEN g.turn_index ELSE IndexOf(min_card, lowest_cards) - 1

IsInvisible(card) ==
    /\ get_card_rank(card) \in DOMAIN magic_cards
    /\ magic_cards[get_card_rank(card)].magic_ability = "INVISIBLE"

\* the first card from the top of the play stack that is not Invisible, or None
RECURSIVE TopFrom(_, _)
TopFrom(stack, i) ==
    IF i < 1 THEN None
    ELSE IF ~IsInvisible(stack[i]) THEN stack[i]
    ELSE TopFrom(stack, i - 1)

\* fault: the card on top of the play stack, Invisible or not
find_top_card(g) ==
    IF g.table_cards.stack_play = <<>> THEN None ELSE Last(g.table_cards.stack_play)

find_effective_top_card(g) == TopFrom(g.table_cards.stack_play, Len(g.table_cards.stack_play))

\* fault: the plain rule for every card, with or without an ability
can_play_card_by_rank(g, card) ==
    LET top == find_effective_top_card(g)
    IN  IF g.round_index = 1 /\ g.start_index = g.turn_index
            THEN get_card_rank(card) = get_lowest_card(g, Actor(g))
        ELSE top = None \/ get_card_rank(card) >= get_card_rank(top)

can_play_card(g, card) ==
    LET RankOf(effective_top_card) ==
            IF effective_top_card # None THEN get_card_rank(effective_top_card) ELSE None
        Allowed(card_rank, effective_top_card_rank) ==
            IF g.round_index = 1 /\ g.start_index = g.turn_index
                THEN card_rank = get_lowest_card(g, Actor(g))
            ELSE IF effective_top_card_rank = None
                THEN TRUE
            ELSE IF card_rank \in DOMAIN magic_cards
                THEN effective_top_card_rank \in magic_cards[card_rank].playable_on
            ELSE IF effective_top_card_rank \in DOMAIN magic_cards
                THEN ~(magic_cards[effective_top_card_rank].magic_ability = "LOWER_THAN"
                        /\ card_rank > effective_top_card_rank)
            ELSE ~(card_rank < effective_top_card_rank)
    IN  Allowed(get_card_rank(card), RankOf(find_effective_top_card(g)))

\* the pile get_playable_cards reads: the first non-empty one
FirstPile(player_state) ==
    IF player_state.cards_hand # <<>> THEN player_state.cards_hand
    ELSE IF player_state.cards_face_up # <<>> THEN player_state.cards_face_up
    ELSE player_state.cards_face_down

\* fault: reads the hand whatever the other piles hold
get_playable_cards_hand_only(g, player_index) ==
    LET Playable(card) == can_play_card(g, card)
    IN  SelectSeq(g.player_states[player_index + 1].cards_hand, Playable)

get_playable_cards(g, player_index) ==
    LET Playable(card) == can_play_card(g, card)
    IN  SelectSeq(FirstPile(g.player_states[player_index + 1]), Playable)

\* fault: three of a kind on top of the play stack are enough
check_last_three(g) ==
    LET stack == g.table_cards.stack_play
    IN  /\ Len(stack) >= 3
        /\ Cardinality({get_card_rank(stack[i]) : i \in (Len(stack) - 2)..Len(stack)}) = 1

check_last_four(g) ==
    LET stack == g.table_cards.stack_play
    IN  /\ Len(stack) >= 4
        /\ Cardinality({get_card_rank(stack[i]) : i \in (Len(stack) - 3)..Len(stack)}) = 1

\* fault: clears the play stack without moving it to the discard stack
burn_play_stack_drops(g) == [g EXCEPT !.table_cards.stack_play = <<>>]

\* fault: copies the play stack to the discard stack without clearing it
burn_play_stack_keeps(g) ==
    [g EXCEPT !.table_cards.stack_discard = @ \o g.table_cards.stack_play]

burn_play_stack(g) ==
    [g EXCEPT !.table_cards.stack_discard = @ \o g.table_cards.stack_play,
              !.table_cards.stack_play = <<>>]

\* the pile play_card takes the card from: 1 hand, 2 face_up, 3 face_down, 0 none
PileOf(player_state, card) ==
    IF In(card, player_state.cards_hand) THEN 1
    ELSE IF In(card, player_state.cards_face_up) THEN 2
    ELSE IF In(card, player_state.cards_face_down) THEN 3
    ELSE 0

\* fault: a card played from face_up or face_down is replaced from the deck too
play_card_refills_any(g, card) ==
    LET t    == g.turn_index + 1
        deck == g.table_cards.deck
        \* the card leaves its pile; from the hand, the deck's last card replaces it
        Taken(pile) ==
            CASE pile = 1 ->
                   IF deck # <<>>
                   THEN [g EXCEPT !.player_states[t].cards_hand =
                                        Append(Remove(card, @), Last(deck)),
                                  !.table_cards.deck = Front(@)]
                   ELSE [g EXCEPT !.player_states[t].cards_hand = Remove(card, @)]
              [] pile = 2 ->
                   IF deck # <<>>
                   THEN [g EXCEPT !.player_states[t].cards_face_up = Remove(card, @),
                                  !.player_states[t].cards_hand = Append(@, Last(deck)),
                                  !.table_cards.deck = Front(@)]
                   ELSE [g EXCEPT !.player_states[t].cards_face_up = Remove(card, @)]
              [] OTHER    -> [g EXCEPT !.player_states[t].cards_face_down = Remove(card, @)]
        \* the card is on the play stack: burn by ability, burn by four of a kind, or ''
        Placed(g2, card_rank) ==
            IF /\ card_rank \in DOMAIN magic_cards
               /\ magic_cards[card_rank].is_effect_now
               /\ magic_cards[card_rank].magic_ability = "BURN"
                THEN [g |-> burn_play_stack(g2), ret |-> BURNED, err |-> FALSE]
            ELSE IF check_last_four(g2)
                THEN [g |-> burn_play_stack(g2), ret |-> BURNED, err |-> FALSE]
            ELSE [g |-> g2, ret |-> NOTHING, err |-> FALSE]
        From(pile) ==
            IF pile = 0 THEN [g |-> g, ret |-> NOTHING, err |-> TRUE]
            ELSE Placed([Taken(pile) EXCEPT !.table_cards.stack_play = Append(@, card)],
                        get_card_rank(card))
    IN  IF ~can_play_card(g, card) THEN [g |-> g, ret |-> NOTHING, err |-> TRUE]
        ELSE From(PileOf(g.player_states[t], card))

\* fault: a card played from the hand is not replaced from the deck
play_card_no_refill(g, card) ==
    LET t    == g.turn_index + 1
        \* the card leaves its pile
        Taken(pile) ==
            CASE pile = 1 -> [g EXCEPT !.player_states[t].cards_hand = Remove(card, @)]
              [] pile = 2 -> [g EXCEPT !.player_states[t].cards_face_up = Remove(card, @)]
              [] OTHER    -> [g EXCEPT !.player_states[t].cards_face_down = Remove(card, @)]
        \* the card is on the play stack: burn by ability, burn by four of a kind, or ''
        Placed(g2, card_rank) ==
            IF /\ card_rank \in DOMAIN magic_cards
               /\ magic_cards[card_rank].is_effect_now
               /\ magic_cards[card_rank].magic_ability = "BURN"
                THEN [g |-> burn_play_stack(g2), ret |-> BURNED, err |-> FALSE]
            ELSE IF check_last_four(g2)
                THEN [g |-> burn_play_stack(g2), ret |-> BURNED, err |-> FALSE]
            ELSE [g |-> g2, ret |-> NOTHING, err |-> FALSE]
        From(pile) ==
            IF pile = 0 THEN [g |-> g, ret |-> NOTHING, err |-> TRUE]
            ELSE Placed([Taken(pile) EXCEPT !.table_cards.stack_play = Append(@, card)],
                        get_card_rank(card))
    IN  IF ~can_play_card(g, card) THEN [g |-> g, ret |-> NOTHING, err |-> TRUE]
        ELSE From(PileOf(g.player_states[t], card))

\* play_card: [g: the state left behind, ret: '*' or '', err: ValueError raised]
play_card(g, card) ==
    LET t    == g.turn_index + 1
        deck == g.table_cards.deck
        \* the card leaves its pile; from the hand, the deck's last card replaces it
        Taken(pile) ==
            CASE pile = 1 ->
                   IF deck # <<>>
                   THEN [g EXCEPT !.player_states[t].cards_hand =
                                        Append(Remove(card, @), Last(deck)),
                                  !.table_cards.deck = Front(@)]
                   ELSE [g EXCEPT !.player_states[t].cards_hand = Remove(card, @)]
              [] pile = 2 -> [g EXCEPT !.player_states[t].cards_face_up = Remove(card, @)]
              [] OTHER    -> [g EXCEPT !.player_states[t].cards_face_down = Remove(card, @)]
        \* the card is on the play stack: burn by ability, burn by four of a kind, or ''
        Placed(g2, card_rank) ==
            IF /\ card_rank \in DOMAIN magic_cards
               /\ magic_cards[card_rank].is_effect_now
               /\ magic_cards[card_rank].magic_ability = "BURN"
                THEN [g |-> burn_play_stack(g2), ret |-> BURNED, err |-> FALSE]
            ELSE IF check_last_four(g2)
                THEN [g |-> burn_play_stack(g2), ret |-> BURNED, err |-> FALSE]
            ELSE [g |-> g2, ret |-> NOTHING, err |-> FALSE]
        From(pile) ==
            IF pile = 0 THEN [g |-> g, ret |-> NOTHING, err |-> TRUE]
            ELSE Placed([Taken(pile) EXCEPT !.table_cards.stack_play = Append(@, card)],
                        get_card_rank(card))
    IN  IF ~can_play_card(g, card) THEN [g |-> g, ret |-> NOTHING, err |-> TRUE]
        ELSE From(PileOf(g.player_states[t], card))

\* fault: the turn goes to the next player who still holds a card
next_turn_skips_finished(g) ==
    LET n == NumPlayers(g)
        Holds(k) == ~is_winner(g.player_states[((g.turn_index + k) % n) + 1])
        steps == {k \in 1..n : Holds(k)}
    IN  [g EXCEPT !.turn_index =
            IF steps = {} THEN (g.turn_index + 1) % n ELSE (g.turn_index + Min(steps)) % n]

next_turn(g) == [g EXCEPT !.turn_index = (g.turn_index + 1) % NumPlayers(g)]

\* fault: the game ends only when nobody is left holding cards
check_game_over_strict(g) ==
    LET NewWinner(i) == /\ is_winner(g.player_states[i])
                        /\ ~In(g.player_states[i].name, g.winning_order)
        RECURSIVE Order(_, _)
        Order(order, i) ==
            IF i > NumPlayers(g) THEN order
            ELSE Order(IF NewWinner(i) THEN Append(order, g.player_states[i].name) ELSE order,
                       i + 1)
    IN  IF Cardinality({i \in 1..NumPlayers(g) : ~is_winner(g.player_states[i])}) < 1
        THEN [g EXCEPT !.winning_order = Order(@, 1), !.is_game_over = TRUE]
        ELSE [g EXCEPT !.winning_order = Order(@, 1)]

check_game_over(g) ==
    LET NewWinner(i) == /\ is_winner(g.player_states[i])
                        /\ ~In(g.player_states[i].name, g.winning_order)
        RECURSIVE Order(_, _)
        Order(order, i) ==
            IF i > NumPlayers(g) THEN order
            ELSE Order(IF NewWinner(i) THEN Append(order, g.player_states[i].name) ELSE order,
                       i + 1)
    IN  IF Cardinality({i \in 1..NumPlayers(g) : ~is_winner(g.player_states[i])}) <= 1
        THEN [g EXCEPT !.winning_order = Order(@, 1), !.is_game_over = TRUE]
        ELSE [g EXCEPT !.winning_order = Order(@, 1)]

\* fault: the play stack is left out of the set that is compared
check_same_cards_hands_only(g) ==
    LET Compared(current_cards) ==
            IF <<current_cards>> = g.last_cards
            THEN [g EXCEPT !.same_cards_count = @ + 1]
            ELSE [g EXCEPT !.last_cards = <<current_cards>>, !.same_cards_count = 0]
        Counted(g1) ==
            IF g1.same_cards_count = 10 THEN [g1 EXCEPT !.is_game_over = TRUE] ELSE g1
    IN  IF g.table_cards.deck # <<>> THEN g
        ELSE Counted(Compared(UNION {ToSet(g.player_states[i].cards_hand) : i \in 1..NumPlayers(g)}))

check_same_cards(g) ==
    LET Compared(current_cards) ==
            IF <<current_cards>> = g.last_cards
            THEN [g EXCEPT !.same_cards_count = @ + 1]
            ELSE [g EXCEPT !.last_cards = <<current_cards>>, !.same_cards_count = 0]
        Counted(g1) ==
            IF g1.same_cards_count = 10 THEN [g1 EXCEPT !.is_game_over = TRUE] ELSE g1
    IN  IF g.table_cards.deck # <<>> THEN g
        ELSE Counted(Compared(UNION {ToSet(g.player_states[i].cards_hand) : i \in 1..NumPlayers(g)}
                                \cup ToSet(g.table_cards.stack_play)))

\* store_game_state writes the snapshot of the round, which nothing reads
check_round_start(g) ==
    IF g.turn_index = g.start_index
    THEN check_same_cards([create_round(g) EXCEPT !.round_index = @ + 1])
    ELSE g

\* fault: no pickup option when nothing is playable
init_turn_no_pickup(g) ==
    LET First(first) ==
            IF g.turn_index = g.start_index /\ g.round_index = 1
            THEN [g EXCEPT !.start_index = first, !.turn_index = first]
            ELSE g
        Options(playable_cards) ==
            playable_cards
        Turn(g2) ==
            [g   |-> g2,
             ret |-> IF is_winner(Actor(g2)) THEN <<None>>
                     ELSE Options(get_playable_cards(g2, g2.turn_index)),
             err |-> FALSE]
    IN  IF NumPlayers(g) = 0
        THEN IF g.turn_index = g.start_index /\ g.round_index = 1
             THEN [g |-> g, ret |-> <<>>, err |-> TRUE]
             ELSE [g |-> check_round_start(g), ret |-> <<>>, err |-> TRUE]
        ELSE Turn(check_round_start(First(choose_first_player(g))))

\* init_turn: [g: the state left behind, ret: the options returned, err: raised];
\* with no players min() of no cards raises ValueError in choose_first_player,
\* or else player_states[turn_index] raises IndexError after check_round_start
init_turn(g) ==
    LET First(first) ==
            IF g.turn_index = g.start_index /\ g.round_index = 1
            THEN [g EXCEPT !.start_index = first, !.turn_index = first]
            ELSE g
        Options(playable_cards) ==
            IF playable_cards # <<>> THEN playable_cards ELSE <<PICKUP>>
        Turn(g2) ==
            [g   |-> g2,
             ret |-> IF is_winner(Actor(g2)) THEN <<None>>
                     ELSE Options(get_playable_cards(g2, g2.turn_index)),
             err |-> FALSE]
    IN  IF NumPlayers(g) = 0
        THEN IF g.turn_index = g.start_index /\ g.round_index = 1
             THEN [g |-> g, ret |-> <<>>, err |-> TRUE]
             ELSE [g |-> check_round_start(g), ret |-> <<>>, err |-> TRUE]
        ELSE Turn(check_round_start(First(choose_first_player(g))))

\* fault: a card is recorded in the history before play_card has accepted it
ApplyAction_records_first(g, action) ==
    LET Recorded(played) ==
            IF played.err THEN [g |-> played.g, err |-> TRUE]
            ELSE IF played.ret = BURNED
                THEN [g |-> append_player_actions(played.g, BURNED), err |-> FALSE]
            ELSE [g |-> played.g, err |-> FALSE]
    IN  IF action = None THEN [g |-> g, err |-> FALSE]
        ELSE IF action = PICKUP
            THEN [g |-> append_player_actions(
                            [g EXCEPT !.player_states[g.turn_index + 1].cards_hand =
                                            @ \o g.table_cards.stack_play,
                                      !.table_cards.stack_play = <<>>],
                            action),
                  err |-> FALSE]
        ELSE Recorded(play_card(append_player_actions(g, action), action))

\* fault: a pickup copies the play stack into the hand and leaves it on the table
ApplyAction_pickup_keeps_stack(g, action) ==
    LET Marked(g1, result) ==
            IF result = BURNED /\ get_player_last_action(g1) # BURNED
            THEN [g |-> append_player_actions(g1, BURNED), err |-> FALSE]
            ELSE [g |-> g1, err |-> FALSE]
        Recorded(played) ==
            IF played.err THEN [g |-> played.g, err |-> TRUE]
            ELSE Marked(append_player_actions(played.g, action), played.ret)
    IN  IF action = None THEN [g |-> g, err |-> FALSE]
        ELSE IF action = PICKUP
            THEN [g |-> append_player_actions(
                            [g EXCEPT !.player_states[g.turn_index + 1].cards_hand =
                                            @ \o g.table_cards.stack_play],
                            action),
                  err |-> FALSE]
        ELSE Recorded(play_card(g, action))

\* one pass of the loop of complete_turn: [g, err]
ApplyAction(g, action) ==
    LET Marked(g1, result) ==
            IF result = BURNED /\ get_player_last_action(g1) # BURNED
            THEN [g |-> append_player_actions(g1, BURNED), err |-> FALSE]
            ELSE [g |-> g1, err |-> FALSE]
        Recorded(played) ==
            IF played.err THEN [g |-> played.g, err |-> TRUE]
            ELSE Marked(append_player_actions(played.g, action), played.ret)
    IN  IF action = None THEN [g |-> g, err |-> FALSE]
        ELSE IF action = PICKUP
            THEN [g |-> append_player_actions(
                            [g EXCEPT !.player_states[g.turn_index + 1].cards_hand =
                                            @ \o g.table_cards.stack_play,
                                      !.table_cards.stack_play = <<>>],
                            action),
                  err |-> FALSE]
        ELSE Recorded(play_card(g, action))

\* the loop of complete_turn over actions[i..]; an action that raises ends it
RECURSIVE ApplyActions(_, _, _)
ApplyActions(g, actions, i) ==
    LET Rest(one) == IF one.err THEN one ELSE ApplyActions(one.g, actions, i + 1)
    IN  IF i > Len(actions) THEN [g |-> g, err |-> FALSE]
        ELSE Rest(ApplyAction(g, actions[i]))

\* complete_turn: [g, err]; actions[0] of an empty list raises IndexError, and so
\* does player_states[turn_index] when there are no players
complete_turn(g, actions) ==
    LET Passed(g1) ==
            IF g1.is_game_over THEN [g |-> g1, err |-> FALSE]
            ELSE IF actions = <<>> THEN [g |-> g1, err |-> TRUE]
            ELSE IF actions[1] = None \/ get_player_last_action(g1) # BURNED
                THEN [g |-> next_turn(g1), err |-> FALSE]
            ELSE [g |-> g1, err |-> FALSE]
        Checked(g0) == Passed(IF is_winner(Actor(g0)) THEN check_game_over(g0) ELSE g0)
        Applied(applied) == IF applied.err THEN applied ELSE Checked(applied.g)
    IN  IF NumPlayers(g) = 0 THEN [g |-> g, err |-> TRUE]
        ELSE Applied(ApplyActions(g, actions, 1))

\* card_swap(player_name, [hand_card, face_up_card]): [g, err]
card_swap(g, player_name, cards) ==
    LET names == [i \in 1..NumPlayers(g) |-> g.player_states[i].name]
        p == IndexOf(player_name, names)
        player_state == g.player_states[p]
        hand_index == IndexOf(cards[1], player_state.cards_hand)
        face_up_index == IndexOf(cards[2], player_state.cards_face_up)
    IN  IF ~In(player_name, names) THEN [g |-> g, err |-> TRUE]
        ELSE IF ~In(cards[1], player_state.cards_hand) THEN [g |-> g, err |-> TRUE]
        ELSE IF ~In(cards[2], player_state.cards_face_up) THEN [g |-> g, err |-> TRUE]
        ELSE [g |-> [g EXCEPT !.player_states[p].cards_hand[hand_index] = cards[2],
                              !.player_states[p].cards_face_up[face_up_index] = cards[1]],
              err |-> FALSE]

(***************************************************************************)
(* The driver: what is called, with what, and what came back.              *)
(***************************************************************************)
\* start_game has run to its end: rounds are open
Playing == game.game_start_time # NOTHING /\ game.n_rounds > 0

\* the values of turn_index since round_index last went up, after a call that
\* leaves the game g2 behind
Acted(g2) ==
    IF g2.round_index > game.round_index THEN {g2.turn_index}
    ELSE acted \cup {g2.turn_index}

Inputs == Cards \cup {PICKUP, None}

ActionLists == UNION {[1..k -> Inputs] : k \in 0..MaxActions}

Init ==
    /\ \E n \in 0..MaxPlayers : game = GameState(n)
    /\ op = "__init__"
    /\ args = <<>>
    /\ raised = FALSE
    /\ options = <<>>
    /\ calls = 0
    /\ acted = {0}
    /\ prob_model = None
    /\ node = None
    /\ lobbies = <<>>
    /\ heap = <<>>
    /\ tasks = <<>>

StartGame ==
    /\ game.game_start_time = NOTHING
    /\ \E seed \in 1..MaxSeed :
        LET started == start_game(game, seed)
        IN  /\ game' = started.g
            /\ raised' = started.err
            /\ args' = <<seed>>
    /\ op' = "start_game"
    /\ UNCHANGED <<options, calls, prob_model, node>>
    /\ UNCHANGED <<lobbies, heap, tasks>>
    /\ acted' = Acted(game')

\* any call of init_turn
InitTurn ==
    /\ Playing
    /\ calls < MaxCalls
    /\ game' = init_turn(game).g
    /\ options' = IF init_turn(game).err THEN options ELSE init_turn(game).ret
    /\ op' = "init_turn"
    /\ args' = <<>>
    /\ raised' = init_turn(game).err
    /\ calls' = calls + 1
    /\ acted' = Acted(game')
    /\ UNCHANGED <<prob_model, node>>
    /\ UNCHANGED <<lobbies, heap, tasks>>

\* any call of complete_turn, legal or not
CompleteTurn ==
    /\ Playing
    /\ calls < MaxCalls
    /\ \E actions \in ActionLists :
        LET done == complete_turn(game, actions)
        IN  /\ game' = done.g
            /\ raised' = done.err
            /\ args' = actions
    /\ op' = "complete_turn"
    /\ calls' = calls + 1
    /\ acted' = Acted(game')
    /\ UNCHANGED <<options, prob_model, node>>
    /\ UNCHANGED <<lobbies, heap, tasks>>

\* any call of card_swap, for a player of the roster or a stranger; of its
\* arguments the driver's record keeps the player
CardSwap ==
    /\ Playing
    /\ calls < MaxCalls
    /\ \E p \in 1..(NumPlayers(game) + 1), c0 \in Cards, c1 \in Cards :
        LET swapped == card_swap(game, PlayerNames[p], <<c0, c1>>)
        IN  /\ game' = swapped.g
            /\ raised' = swapped.err
            /\ args' = <<p>>
    /\ op' = "card_swap"
    /\ calls' = calls + 1
    /\ acted' = Acted(game')
    /\ UNCHANGED <<options, prob_model, node>>
    /\ UNCHANGED <<lobbies, heap, tasks>>

(***************************************************************************)
(* The driver loop of __main__: while not is_game_over, init_turn and then *)
(* complete_turn on one of the options it returned.  The loop runs until   *)
(* the driver makes its first call outside it.                             *)
(***************************************************************************)
LoopInitTurn ==
    /\ Playing
    /\ calls = 0
    /\ op \in {"start_game", "complete_turn"}
    /\ ~raised
    /\ ~game.is_game_over
    /\ game' = init_turn(game).g
    /\ options' = IF init_turn(game).err THEN options ELSE init_turn(game).ret
    /\ op' = "init_turn"
    /\ args' = <<>>
    /\ raised' = init_turn(game).err
    /\ acted' = Acted(game')
    /\ UNCHANGED <<calls, prob_model, node>>
    /\ UNCHANGED <<lobbies, heap, tasks>>

LoopCompleteTurn ==
    /\ calls = 0
    /\ op = "init_turn"
    /\ ~raised
    /\ \E i \in 1..Len(options) :
        LET done == complete_turn(game, <<options[i]>>)
        IN  /\ game' = done.g
            /\ raised' = done.err
            /\ args' = <<options[i]>>
    /\ op' = "complete_turn"
    /\ UNCHANGED <<options, calls, prob_model, node>>
    /\ UNCHANGED <<lobbies, heap, tasks>>
    /\ acted' = Acted(game')

LoopNext == StartGame \/ LoopInitTurn \/ LoopCompleteTurn

\* start_game and then the loop of __main__ alone (the card_swap that __main__
\* makes before its loop is one of the calls of Spec)
LoopSpec == Init /\ [][LoopNext]_vars

\* the driver of __main__ has a call to make: start_game once, init_turn while
\* not is_game_over, complete_turn on one of the options init_turn returned
LoopEnabled ==
    \/ game.game_start_time = NOTHING
    \/ /\ Playing /\ calls = 0 /\ op \in {"start_game", "complete_turn"}
       /\ ~raised /\ ~game.is_game_over
    \/ calls = 0 /\ op = "init_turn" /\ ~raised /\ options # <<>>

\* the driver makes the call: every call of the loop leaves its name in op
LoopStep ==
    /\ LoopEnabled
    /\ op' \in {"start_game", "init_turn", "complete_turn"}

\* the loop of __main__ goes on while its condition holds
LoopFairSpec == LoopSpec /\ WF_op(LoopStep)

Next == LoopNext \/ InitTurn \/ CompleteTurn \/ CardSwap

\* the driver of __main__, and then any calls at all
Spec == Init /\ [][Next]_vars

(***************************************************************************)
(* reset, and a driver that ends a match, resets and starts the next one.  *)
(***************************************************************************)
\* rosters handed to reset have up to MaxRoster names
MaxRoster == 2

\* the loop of reset over player_states from position i on: a player whose
\* name is not among new_players gives its place to the next new player, or
\* to None, which is filtered out after the loop; [players, queue]
RECURSIVE ReplaceFrom(_, _, _, _)
ReplaceFrom(player_states, new_players, new_player_queue, i) ==
    IF i > Len(player_states) THEN [players |-> <<>>, queue |-> new_player_queue]
    ELSE IF In(player_states[i].name, new_players)
        THEN LET rest == ReplaceFrom(player_states, new_players, new_player_queue, i + 1)
             IN  [rest EXCEPT !.players = <<player_states[i]>> \o @]
    ELSE IF new_player_queue # <<>>
        THEN LET rest == ReplaceFrom(player_states, new_players, Tail(new_player_queue),
                                     i + 1)
             IN  [rest EXCEPT !.players = <<Head(new_player_queue)>> \o @]
    ELSE ReplaceFrom(player_states, new_players, new_player_queue, i + 1)

\* reset(new_players): [g, err]; new_players is the list of the names, <<>> for
\* none; pop() on an empty roster raises after the fields were reset
reset(g, new_players) ==
    LET g1 == [g EXCEPT !.table_cards = TableCards, !.start_index = 0, !.turn_index = 0,
                        !.round_index = 0, !.is_game_over = FALSE, !.winning_order = <<>>]
        Rotated(players) == <<Last(players)>> \o Front(players)
        Known(name) == \E i \in 1..NumPlayers(g) : g.player_states[i].name = name
        Joining(name) == ~Known(name)
        Queue == [i \in 1..Len(SelectSeq(new_players, Joining)) |->
                     PlayerState(SelectSeq(new_players, Joining)[i])]
        Replaced == ReplaceFrom(g.player_states, new_players, Queue, 1)
    IN  IF new_players = <<>>
        THEN IF g.player_states = <<>> THEN [g |-> g1, err |-> TRUE]
             ELSE [g |-> [g1 EXCEPT !.player_states = Rotated(@)], err |-> FALSE]
        ELSE [g |-> [g1 EXCEPT !.player_states = Rotated(Replaced.players \o Replaced.queue)],
              err |-> FALSE]

\* the rosters handed to reset: none, or up to MaxRoster distinct names
Rosters ==
    {<<>>} \cup UNION {{f \in [1..k -> {PlayerNames[i] : i \in 1..MaxPlayers}] :
                            \A i, j \in 1..k : f[i] = f[j] => i = j} : k \in 1..MaxRoster}

\* reset once the match is over
Reset ==
    /\ calls = 0
    /\ game.is_game_over
    /\ \E new_players \in Rosters :
          /\ game' = reset(game, new_players).g
          /\ raised' = reset(game, new_players).err
          /\ args' = new_players
    /\ op' = "reset"
    /\ calls' = 1
    /\ UNCHANGED <<options, acted, prob_model, node>>
    /\ UNCHANGED <<lobbies, heap, tasks>>

\* start_game for the next match
Restart ==
    /\ op = "reset"
    /\ ~raised
    /\ \E seed \in 1..MaxSeed :
          /\ game' = start_game(game, seed).g
          /\ raised' = start_game(game, seed).err
          /\ args' = <<seed>>
    /\ op' = "start_game"
    /\ UNCHANGED <<options, calls, acted, prob_model, node>>
    /\ UNCHANGED <<lobbies, heap, tasks>>

ResetNext == LoopNext \/ Reset \/ Restart

ResetSpec == Init /\ [][ResetNext]_vars

(***************************************************************************)
(* What the claims speak of.                                               *)
(***************************************************************************)
RECURSIVE Piles(_, _)
\* the three piles of the players i.., one after the other
Piles(g, i) ==
    IF i > NumPlayers(g) THEN <<>>
    ELSE g.player_states[i].cards_hand \o g.player_states[i].cards_face_up
            \o g.player_states[i].cards_face_down \o Piles(g, i + 1)

\* every place a card can be
AllCards(g) ==
    g.table_cards.deck \o g.table_cards.stack_play \o g.table_cards.stack_discard \o Piles(g, 1)

Unfinished(g) == {i \in 1..NumPlayers(g) : ~is_winner(g.player_states[i])}

\* the cards in any hand or on the play stack
HandsAndStack(g) ==
    UNION {ToSet(g.player_states[i].cards_hand) : i \in 1..NumPlayers(g)}
        \cup ToSet(g.table_cards.stack_play)

\* the cards a player holds
AllCardsOf(player_state) ==
    player_state.cards_hand \o player_state.cards_face_up \o player_state.cards_face_down

\* the state after the first k actions of a call of complete_turn
RECURSIVE After(_, _, _)
After(g, actions, k) ==
    IF k = 0 THEN g ELSE ApplyAction(After(g, actions, k - 1), actions[k]).g

\* a card the rules reject, or one the actor does not hold
Illegal(g, action) ==
    /\ action \in Cards
    /\ (~can_play_card(g, action) \/ ~In(action, AllCardsOf(Actor(g))))

\* a call of complete_turn that came back without an error
Completed == op' = "complete_turn" /\ ~raised'

\* no None among the actions
AllReal(actions) == actions # <<>> /\ \A i \in 1..Len(actions) : actions[i] # None

\* nothing has been played since the deal
NoPlayYet(g) ==
    /\ g.table_cards.stack_play = <<>>
    /\ g.table_cards.stack_discard = <<>>
    /\ Len(g.table_cards.deck) = Len(NewDeck) - 3 * DealCount * NumPlayers(g)
    /\ \A i \in 1..NumPlayers(g) :
        /\ Len(g.player_states[i].cards_hand) = DealCount
        /\ Len(g.player_states[i].cards_face_up) = DealCount
        /\ Len(g.player_states[i].cards_face_down) = DealCount

(***************************************************************************)
(* The legality rule on its own: can_play_card and find_effective_top_card *)
(* are queries, so they are applied to positions drawn from a bounded set: *)
(* every play stack of up to MaxStack distinct cards, one card of each     *)
(* rank that can lie on a stack (a ten never stays: it burns) and two more *)
(* threes, with the two hands fixed and the other cards in the deck.       *)
(***************************************************************************)
MaxStack == 3
MaxThrees == 2

StackCards == {Card(1, r) : r \in (2..14) \ {10}} \cup {Card(2, 3), Card(3, 3)}

Injective(f) == \A i, j \in DOMAIN f : f[i] = f[j] => i = j

Stacks == UNION {{f \in [1..k -> StackCards] : Injective(f)} : k \in 0..MaxStack}

RuleHands == <<<<Card(4, 4), Card(4, 9), Card(4, 12)>>, <<Card(4, 5), Card(4, 11), Card(4, 13)>>>>

\* a game of two in round round_index, player 0 on turn, with stack on the table
RulePosition(stack, round_index) ==
    LET held(card) == \/ In(card, stack)
                      \/ \E i \in 1..2 : In(card, RuleHands[i])
        free(card) == ~held(card)
    IN  [GameState(2) EXCEPT
            !.player_states = [i \in 1..2 |-> [@[i] EXCEPT !.cards_hand = RuleHands[i]]],
            !.table_cards = [deck |-> SelectSeq(FullDeck, free), stack_discard |-> <<>>,
                             stack_play |-> stack],
            !.round_index = round_index,
            !.game_start_time = 1,
            !.n_rounds = round_index + 1,
            !.round_actions = <<<<>>, <<>>>>]

\* round 1 is the state start_game leaves: nothing has been played yet
RuleInit ==
    /\ \E stack \in Stacks : \E round_index \in 1..2 :
          /\ round_index = 1 => stack = <<>>
          /\ game = RulePosition(stack, round_index)
    /\ op = "__init__"
    /\ args = <<>>
    /\ raised = FALSE
    /\ options = <<>>
    /\ calls = 0
    /\ acted = {0}
    /\ prob_model = None
    /\ node = None
    /\ lobbies = <<>>
    /\ heap = <<>>
    /\ tasks = <<>>

\* one query per position
FindEffectiveTopCard ==
    /\ op = "__init__"
    /\ op' = "find_effective_top_card"
    /\ args' = <<>>
    /\ options' = <<find_effective_top_card(game)>>
    /\ UNCHANGED <<game, raised, calls, acted, prob_model, node>>
    /\ UNCHANGED <<lobbies, heap, tasks>>

CanPlayCard ==
    \E k \in 1..52 :
        /\ op = "__init__"
        /\ ~In(FullDeck[k], game.table_cards.stack_play)
        /\ op' = "can_play_card"
        /\ args' = <<FullDeck[k]>>
        /\ options' = <<can_play_card(game, FullDeck[k])>>
        /\ UNCHANGED <<game, raised, calls, acted, prob_model, node>>
        /\ UNCHANGED <<lobbies, heap, tasks>>

RuleNext == FindEffectiveTopCard \/ CanPlayCard

RuleSpec == RuleInit /\ [][RuleNext]_vars

(***************************************************************************)
(* prob_model.py: the belief model.  The code keeps, for each of nine      *)
(* locations, a list of probabilities, one for each of the 52 cards; the   *)
(* model keeps the lists for a deck of the first ProbDeckSize cards of     *)
(* ProbPick, and the calls name the first ProbCardCount of them.  A        *)
(* probability is an exact fraction <<numerator, denominator>> in lowest   *)
(* terms.                                                                  *)
(***************************************************************************)
ProbDeckSize == 5
ProbCardCount == 2
MaxProbCalls == 3
MaxDeal == 2

ProbPick ==
    <<Card(1, 6), Card(4, 14), Card(1, 9), Card(3, 10), Card(2, 3), Card(2, 7),
      Card(1, 2), Card(3, 12)>>

\* the cards of the model's deck
ProbDeck == {ProbPick[i] : i \in {j \in 1..Len(ProbPick) : j <= ProbDeckSize}}

\* the cards the calls name
ProbCards == {ProbPick[i] : i \in {j \in 1..Len(ProbPick) : j <= ProbCardCount}}

card_to_index(card) ==
    IF card = NOTHING THEN 60
    ELSE IF card = PICKUP THEN 52
    ELSE ((card % 100) - 2) + 13 * ((card \div 100) - 1)

index_to_card(index) ==
    IF index = 52 THEN PICKUP
    ELSE IF index = 60 THEN NOTHING
    ELSE Card((index \div 13) + 1, (index % 13) + 2)

ProbIndexes == {card_to_index(card) : card \in ProbDeck}

Locations ==
    {"player_hand", "opponent_hand", "player_face_up", "opponent_face_up",
     "player_face_down", "opponent_face_down", "discarded", "play_stack", "deck"}

HiddenBuckets == {"player_hand", "opponent_hand", "player_face_down", "opponent_face_down"}

RECURSIVE GCD(_, _)
GCD(a, b) == IF b = 0 THEN a ELSE GCD(b, a % b)

Abs(n) == IF n < 0 THEN 0 - n ELSE n

\* n / d for d > 0
Frac(n, d) == LET g == GCD(Abs(n), d) IN <<n \div g, d \div g>>

Zero == <<0, 1>>
One == <<1, 1>>

\* ProbabilisticModel.__init__
ProbabilisticModel ==
    [card_probabilities |-> [loc \in Locations |->
                                [i \in ProbIndexes |-> IF loc = "deck" THEN One ELSE Zero]],
     unseen_cards |-> [i \in ProbIndexes |-> 1],
     deck_count |-> Cardinality(ProbIndexes),
     player_unseen_hand_count |-> 0,
     opponent_unseen_hand_count |-> 0,
     player_face_down_count |-> 0,
     opponent_face_down_count |-> 0,
     top_card |-> NOTHING]

\* fault: the card's old location keeps its probability
move_card_keeps_source(m, card_str, from_loc, to_loc) ==
    LET card_index == card_to_index(card_str)
    IN  IF card_index \notin ProbIndexes \/ from_loc \notin Locations
        THEN [m |-> m, err |-> TRUE]
        ELSE IF m.card_probabilities[from_loc][card_index] = Zero
        THEN [m |-> m, err |-> TRUE]
        ELSE [m |-> [m EXCEPT !.card_probabilities[to_loc][card_index] = One],
              err |-> FALSE]

\* fault: a card is moved whatever its probability at from_loc
move_card_unchecked(m, card_str, from_loc, to_loc) ==
    LET card_index == card_to_index(card_str)
        Revealed(m1) ==
            IF m1.unseen_cards[card_index] = 1
            THEN LET m2 == [m1 EXCEPT !.unseen_cards[card_index] = 0]
                 IN  CASE from_loc = "deck" -> [m2 EXCEPT !.deck_count = @ - 1]
                       [] from_loc = "player_hand" ->
                            [m2 EXCEPT !.player_unseen_hand_count = @ - 1]
                       [] from_loc = "opponent_hand" ->
                            [m2 EXCEPT !.opponent_unseen_hand_count = @ - 1]
                       [] from_loc = "player_face_down" ->
                            [m2 EXCEPT !.player_face_down_count = @ - 1]
                       [] from_loc = "opponent_face_down" ->
                            [m2 EXCEPT !.opponent_face_down_count = @ - 1]
                       [] OTHER -> m2
            ELSE m1
        Topped(m1) == IF to_loc = "play_stack" THEN [m1 EXCEPT !.top_card = card_str] ELSE m1
        Placed(m1) ==
            [m1 EXCEPT !.card_probabilities =
                [loc \in DOMAIN @ |->
                    [@[loc] EXCEPT ![card_index] = IF loc = to_loc THEN One ELSE Zero]]]
    IN  IF card_index \notin ProbIndexes \/ from_loc \notin Locations
        THEN [m |-> m, err |-> TRUE]
        ELSE [m |-> Placed(Topped(Revealed(m))), err |-> FALSE]

\* fault: a revealed card is not taken off the counter of from_loc
move_card_keeps_counter(m, card_str, from_loc, to_loc) ==
    LET card_index == card_to_index(card_str)
        Revealed(m1) == [m1 EXCEPT !.unseen_cards[card_index] = 0]
        Topped(m1) == IF to_loc = "play_stack" THEN [m1 EXCEPT !.top_card = card_str] ELSE m1
        Placed(m1) ==
            [m1 EXCEPT !.card_probabilities =
                [loc \in DOMAIN @ |->
                    [@[loc] EXCEPT ![card_index] = IF loc = to_loc THEN One ELSE Zero]]]
    IN  IF card_index \notin ProbIndexes \/ from_loc \notin Locations
        THEN [m |-> m, err |-> TRUE]
        ELSE IF m.card_probabilities[from_loc][card_index] = Zero
        THEN [m |-> m, err |-> TRUE]
        ELSE [m |-> Placed(Topped(Revealed(m))), err |-> FALSE]

\* fault: the counter of from_loc is taken down for a known card too
move_card_counts_again(m, card_str, from_loc, to_loc) ==
    LET card_index == card_to_index(card_str)
        Revealed(m1) ==
            LET m2 == [m1 EXCEPT !.unseen_cards[card_index] = 0]
            IN  CASE from_loc = "deck" -> [m2 EXCEPT !.deck_count = @ - 1]
                  [] from_loc = "player_hand" ->
                       [m2 EXCEPT !.player_unseen_hand_count = @ - 1]
                  [] from_loc = "opponent_hand" ->
                       [m2 EXCEPT !.opponent_unseen_hand_count = @ - 1]
                  [] from_loc = "player_face_down" ->
                       [m2 EXCEPT !.player_face_down_count = @ - 1]
                  [] from_loc = "opponent_face_down" ->
                       [m2 EXCEPT !.opponent_face_down_count = @ - 1]
                  [] OTHER -> m2
        Topped(m1) == IF to_loc = "play_stack" THEN [m1 EXCEPT !.top_card = card_str] ELSE m1
        Placed(m1) ==
            [m1 EXCEPT !.card_probabilities =
                [loc \in DOMAIN @ |->
                    [@[loc] EXCEPT ![card_index] = IF loc = to_loc THEN One ELSE Zero]]]
    IN  IF card_index \notin ProbIndexes \/ from_loc \notin Locations
        THEN [m |-> m, err |-> TRUE]
        ELSE IF m.card_probabilities[from_loc][card_index] = Zero
        THEN [m |-> m, err |-> TRUE]
        ELSE [m |-> Placed(Topped(Revealed(m))), err |-> FALSE]

\* move_card: [m: the model left behind, err: an exception was raised]
move_card(m, card_str, from_loc, to_loc) ==
    LET card_index == card_to_index(card_str)
        Revealed(m1) ==
            IF m1.unseen_cards[card_index] = 1
            THEN LET m2 == [m1 EXCEPT !.unseen_cards[card_index] = 0]
                 IN  CASE from_loc = "deck" -> [m2 EXCEPT !.deck_count = @ - 1]
                       [] from_loc = "player_hand" ->
                            [m2 EXCEPT !.player_unseen_hand_count = @ - 1]
                       [] from_loc = "opponent_hand" ->
                            [m2 EXCEPT !.opponent_unseen_hand_count = @ - 1]
                       [] from_loc = "player_face_down" ->
                            [m2 EXCEPT !.player_face_down_count = @ - 1]
                       [] from_loc = "opponent_face_down" ->
                            [m2 EXCEPT !.opponent_face_down_count = @ - 1]
                       [] OTHER -> m2
            ELSE m1
        Topped(m1) == IF to_loc = "play_stack" THEN [m1 EXCEPT !.top_card = card_str] ELSE m1
        Placed(m1) ==
            [m1 EXCEPT !.card_probabilities =
                [loc \in DOMAIN @ |->
                    [@[loc] EXCEPT ![card_index] = IF loc = to_loc THEN One ELSE Zero]]]
    IN  IF card_index \notin ProbIndexes \/ from_loc \notin Locations
        THEN [m |-> m, err |-> TRUE]
        ELSE IF m.card_probabilities[from_loc][card_index] = Zero
        THEN [m |-> m, err |-> TRUE]
        ELSE [m |-> Placed(Topped(Revealed(m))), err |-> FALSE]

\* fault: the cards dealt are not taken off deck_count
deal_unseen_keeps_deck(m, no_cards, location) ==
    IF location \notin HiddenBuckets THEN [m |-> m, err |-> TRUE]
    ELSE IF m.deck_count - no_cards < 0 THEN [m |-> m, err |-> TRUE]
    ELSE [m |-> CASE location = "player_hand" ->
                        [m EXCEPT !.player_unseen_hand_count = @ + no_cards]
                  [] location = "opponent_hand" ->
                        [m EXCEPT !.opponent_unseen_hand_count = @ + no_cards]
                  [] location = "player_face_down" ->
                        [m EXCEPT !.player_face_down_count = @ + no_cards]
                  [] location = "opponent_face_down" ->
                        [m EXCEPT !.opponent_face_down_count = @ + no_cards],
          err |-> FALSE]

\* deal_unseen: [m, err]
deal_unseen(m, no_cards, location) ==
    IF location \notin HiddenBuckets THEN [m |-> m, err |-> TRUE]
    ELSE IF m.deck_count - no_cards < 0 THEN [m |-> m, err |-> TRUE]
    ELSE LET m1 == [m EXCEPT !.deck_count = @ - no_cards]
         IN  [m |-> CASE location = "player_hand" ->
                            [m1 EXCEPT !.player_unseen_hand_count = @ + no_cards]
                      [] location = "opponent_hand" ->
                            [m1 EXCEPT !.opponent_unseen_hand_count = @ + no_cards]
                      [] location = "player_face_down" ->
                            [m1 EXCEPT !.player_face_down_count = @ + no_cards]
                      [] location = "opponent_face_down" ->
                            [m1 EXCEPT !.opponent_face_down_count = @ + no_cards],
              err |-> FALSE]

\* sum(unseen_cards)
total_unseen(m) == Cardinality({i \in ProbIndexes : m.unseen_cards[i] = 1})

\* fault: divides by the size of the deck, not by the number of unseen cards
update_probabilities_of_deck(m) ==
    LET total == Cardinality(ProbIndexes)
        bucket(loc) == CASE loc = "deck" -> m.deck_count
                         [] loc = "player_hand" -> m.player_unseen_hand_count
                         [] loc = "opponent_hand" -> m.opponent_unseen_hand_count
                         [] loc = "player_face_down" -> m.player_face_down_count
                         [] loc = "opponent_face_down" -> m.opponent_face_down_count
    IN  IF total_unseen(m) > 0
        THEN [m EXCEPT !.card_probabilities =
                [loc \in DOMAIN @ |->
                    [i \in ProbIndexes |->
                        IF m.unseen_cards[i] = 1 /\ loc \in HiddenBuckets \cup {"deck"}
                        THEN Frac(bucket(loc), total)
                        ELSE @[loc][i]]]]
        ELSE m

update_probabilities(m) ==
    LET total == total_unseen(m)
        bucket(loc) == CASE loc = "deck" -> m.deck_count
                         [] loc = "player_hand" -> m.player_unseen_hand_count
                         [] loc = "opponent_hand" -> m.opponent_unseen_hand_count
                         [] loc = "player_face_down" -> m.player_face_down_count
                         [] loc = "opponent_face_down" -> m.opponent_face_down_count
    IN  IF total > 0
        THEN [m EXCEPT !.card_probabilities =
                [loc \in DOMAIN @ |->
                    [i \in ProbIndexes |->
                        IF m.unseen_cards[i] = 1 /\ loc \in HiddenBuckets \cup {"deck"}
                        THEN Frac(bucket(loc), total)
                        ELSE @[loc][i]]]]
        ELSE m

\* the function can_play_card(card_str, top_card, magic_cards) that prob_model.py
\* imports from shed_game: the legality rule of the rule catalog against a
\* given top card (no top card: any card; a card with an ability: the top rank
\* is in its playable-onto set; on a ConstrainLower top: ranks up to it; on
\* another ability: any rank; else: ranks from the top rank up)
can_play_card_on(card_str, top_card, magic) ==
    LET card_rank == card_str % 100
        top_rank == top_card % 100
    IN  IF top_card = NOTHING THEN TRUE
        ELSE IF card_rank \in DOMAIN magic THEN top_rank \in magic[card_rank].playable_on
        ELSE IF top_rank \in DOMAIN magic
            THEN ~(magic[top_rank].magic_ability = "LOWER_THAN" /\ card_rank > top_rank)
        ELSE card_rank >= top_rank

FracTimes(a, b) == Frac(a[1] * b[1], a[2] * b[2])

\* 1 - a
FracComplement(a) == Frac(a[2] - a[1], a[2])

\* the elements of a set of numbers in ascending order
RECURSIVE Ascending(_)
Ascending(S) == IF S = {} THEN <<>> ELSE <<Min(S)>> \o Ascending(S \ {Min(S)})

\* prob_no_playable_cards after the cards from position i on
RECURSIVE NoneOf(_, _, _)
NoneOf(probs, cards, i) ==
    IF i > Len(cards) THEN One
    ELSE FracTimes(FracComplement(probs[card_to_index(cards[i])]), NoneOf(probs, cards, i + 1))

\* get_playable_probability: what it returns is a float (0.0) when no card is
\* playable and else the pair ((value, probabilities), cards)
get_playable_probability(m, loc, top_card) ==
    LET playable == {card_index \in ProbIndexes :
                        /\ m.card_probabilities[loc][card_index] # Zero
                        /\ can_play_card_on(index_to_card(card_index), top_card, magic_cards)}
        Listed(indexes) == [k \in 1..Len(indexes) |-> index_to_card(indexes[k])]
        Returned(cards) ==
            [shape |-> "tuple",
             value |-> FracComplement(NoneOf(m.card_probabilities[loc], cards, 1)),
             cards |-> cards]
    IN  IF playable = {} THEN [shape |-> "float", value |-> Zero, cards |-> <<>>]
        ELSE Returned(Listed(Ascending(playable)))

\* the moves of initialize_game: the cards from position i on go from the deck
\* to to_loc; [m, err]
RECURSIVE MoveFromDeck(_, _, _, _)
MoveFromDeck(m, cards, i, to_loc) ==
    LET Moved(r) == IF r.err THEN r ELSE MoveFromDeck(r.m, cards, i + 1, to_loc)
    IN  IF i > Len(cards) THEN [m |-> m, err |-> FALSE]
        ELSE Moved(move_card(m, cards[i], "deck", to_loc))

\* initialize_game: [m, err]; the three cards a pile is dealt are DealCount here
initialize_game(m, player_hand, player_face_up, opponent_face_up) ==
    LET Updated(r) == IF r.err THEN r ELSE [m |-> update_probabilities(r.m), err |-> FALSE]
        Dealt3(r) == IF r.err THEN r
                     ELSE Updated(deal_unseen(r.m, DealCount, "opponent_face_down"))
        Dealt2(r) == IF r.err THEN r
                     ELSE Dealt3(deal_unseen(r.m, DealCount, "player_face_down"))
        Dealt1(r) == IF r.err THEN r ELSE Dealt2(deal_unseen(r.m, DealCount, "opponent_hand"))
        Moved3(r) == IF r.err THEN r
                     ELSE Dealt1(MoveFromDeck(r.m, opponent_face_up, 1, "opponent_face_up"))
        Moved2(r) == IF r.err THEN r
                     ELSE Moved3(MoveFromDeck(r.m, player_face_up, 1, "player_face_up"))
    IN  Moved2(MoveFromDeck(m, player_hand, 1, "player_hand"))

(***************************************************************************)
(* node.py: a Node holds a reference to the model it was built on (the     *)
(* variable prob_model), so the record keeps the other fields only.        *)
(***************************************************************************)
MaxLayer == 2

\* Node.__init__
Node(layer) ==
    [layer |-> layer, playable_cards |-> <<>>, child_nodes |-> <<>>, best_moves |-> <<>>,
     playable_prob |-> None]

\* generate_playable_cards: unpacking the float raises TypeError before either
\* field is assigned; [node, err]
generate_playable_cards(n, m, loc) ==
    LET Unpacked(r) ==
            IF r.shape = "float" THEN [node |-> n, err |-> TRUE]
            ELSE [node |-> [n EXCEPT !.playable_prob = r.value, !.playable_cards = r.cards],
                  err |-> FALSE]
    IN  Unpacked(get_playable_probability(m, loc, m.top_card))

\* the child simulate_moves builds for a card: [child, err]
Child(m, card, from_loc) ==
    LET Updated(r) == IF r.err THEN [child |-> None, err |-> TRUE]
                      ELSE [child |-> [prob_model |-> update_probabilities(r.m), layer |-> 3],
                            err |-> FALSE]
        Dealt(r) == IF r.err THEN [child |-> None, err |-> TRUE]
                    ELSE Updated(deal_unseen(r.m, 1, from_loc))
    IN  Dealt(move_card(m, card, from_loc, "play_stack"))

\* the loop of simulate_moves from the card at position i on: [node, err]
RECURSIVE SimulateFrom(_, _, _, _)
SimulateFrom(n, m, from_loc, i) ==
    LET Attached(r) ==
            IF r.err THEN [node |-> n, err |-> TRUE]
            ELSE SimulateFrom([n EXCEPT !.child_nodes = Append(@, r.child)], m, from_loc, i + 1)
    IN  IF i > Len(n.playable_cards) THEN [node |-> n, err |-> FALSE]
        ELSE Attached(Child(m, n.playable_cards[i], from_loc))

simulate_moves(n, m, from_loc) == SimulateFrom(n, m, from_loc, 1)

\* the belief model and a node on it, beside a game that is not touched
ProbInit ==
    /\ game = GameState(2)
    /\ op = "__init__"
    /\ args = <<>>
    /\ raised = FALSE
    /\ options = <<>>
    /\ calls = 0
    /\ acted = {0}
    /\ prob_model = ProbabilisticModel
    /\ \E layer \in 1..MaxLayer : node = Node(layer)
    /\ lobbies = <<>>
    /\ heap = <<>>
    /\ tasks = <<>>

\* an exception is not caught: the run ends with it
ProbCall == ~raised /\ calls < MaxProbCalls /\ calls' = calls + 1

MoveCard ==
    \E card_str \in ProbCards \cup {NOTHING, PICKUP} : \E from_loc, to_loc \in Locations :
        /\ ProbCall
        /\ op' = "move_card"
        /\ args' = <<card_str, from_loc, to_loc>>
        /\ prob_model' = move_card(prob_model, card_str, from_loc, to_loc).m
        /\ raised' = move_card(prob_model, card_str, from_loc, to_loc).err
        /\ UNCHANGED <<game, options, acted, node>>
        /\ UNCHANGED <<lobbies, heap, tasks>>

DealUnseen ==
    \E no_cards \in {1, MaxDeal, ProbDeckSize} : \E location \in Locations :
        /\ ProbCall
        /\ op' = "deal_unseen"
        /\ args' = <<no_cards, location>>
        /\ prob_model' = deal_unseen(prob_model, no_cards, location).m
        /\ raised' = deal_unseen(prob_model, no_cards, location).err
        /\ UNCHANGED <<game, options, acted, node>>
        /\ UNCHANGED <<lobbies, heap, tasks>>

UpdateProbabilities ==
    /\ ProbCall
    /\ op' = "update_probabilities"
    /\ args' = <<>>
    /\ prob_model' = update_probabilities(prob_model)
    /\ raised' = FALSE
    /\ UNCHANGED <<game, options, acted, node>>
    /\ UNCHANGED <<lobbies, heap, tasks>>

\* the lists initialize_game is given: the cards the observer sees dealt
SeenLists == {<<>>} \cup {<<card>> : card \in ProbCards}

InitializeGame ==
    \E player_hand, player_face_up, opponent_face_up \in SeenLists :
        /\ ProbCall
        /\ op' = "initialize_game"
        /\ args' = <<player_hand, player_face_up, opponent_face_up>>
        /\ prob_model' = initialize_game(prob_model, player_hand, player_face_up,
                                         opponent_face_up).m
        /\ raised' = initialize_game(prob_model, player_hand, player_face_up,
                                     opponent_face_up).err
        /\ UNCHANGED <<game, options, acted, node>>
        /\ UNCHANGED <<lobbies, heap, tasks>>

GeneratePlayableCards ==
    \E loc \in Locations :
        /\ ProbCall
        /\ op' = "generate_playable_cards"
        /\ args' = <<loc>>
        /\ node' = generate_playable_cards(node, prob_model, loc).node
        /\ raised' = generate_playable_cards(node, prob_model, loc).err
        /\ UNCHANGED <<game, options, acted, prob_model>>
        /\ UNCHANGED <<lobbies, heap, tasks>>

SimulateMoves ==
    \E from_loc \in Locations :
        /\ ProbCall
        /\ op' = "simulate_moves"
        /\ args' = <<from_loc>>
        /\ node' = simulate_moves(node, prob_model, from_loc).node
        /\ raised' = simulate_moves(node, prob_model, from_loc).err
        /\ UNCHANGED <<game, options, acted, prob_model>>
        /\ UNCHANGED <<lobbies, heap, tasks>>

ProbNext ==
    \/ MoveCard \/ DealUnseen \/ UpdateProbabilities \/ InitializeGame
    \/ GeneratePlayableCards \/ SimulateMoves

ProbSpec == ProbInit /\ [][ProbNext]_vars

(***************************************************************************)
(* C1                                                                      *)
(***************************************************************************)
\* C1: card conservation: in every state, each card of the table's deck is in
\* exactly one place among the deck, the play stack, the discard stack and the
\* players' hand, face_up and face_down piles.
CardConservation ==
    /\ Len(AllCards(game)) = Len(NewDeck)
    /\ ToSet(AllCards(game)) = Cards

\* a swap went through after cards were played, picked up and burned
CardConservationWitness ==
    /\ op = "card_swap" /\ ~raised
    /\ game.table_cards.stack_discard # <<>>
    /\ game.table_cards.stack_play # <<>>
    /\ game.table_cards.deck = <<>>

(***************************************************************************)
(* C2                                                                      *)
(***************************************************************************)
\* C2: an illegal action is rejected without mutation: when the k-th action of
\* a call of complete_turn is the first that the rules reject or that the actor
\* does not hold, the call raises and leaves the game exactly as the first k - 1
\* actions left it (for k = 1: as it was before the call).
IllegalRejected ==
    [][(op' = "complete_turn" /\ NumPlayers(game) >= 1) =>
        \A k \in 1..Len(args') :
            ( /\ Illegal(After(game, args', k - 1), args'[k])
              /\ \A j \in 1..(k - 1) : ~Illegal(After(game, args', j - 1), args'[j]) )
            => (raised' /\ game' = After(game, args', k - 1))]_vars

\* a call whose first card was applied and recorded and whose second was rejected
IllegalRejectedWitness ==
    /\ op = "complete_turn" /\ raised
    /\ Len(args) = 2 /\ args[1] \in Cards /\ args[2] \in Cards
    /\ In(args[1], game.table_cards.stack_play)
    /\ In(args[1], game.round_actions[game.turn_index + 1])

(***************************************************************************)
(* C3                                                                      *)
(***************************************************************************)
\* C3: pile priority is enforced on play: a card of the actor's face_up pile
\* submitted while the hand is non-empty, or of the face_down pile while the hand
\* or the face_up pile is non-empty, is rejected and changes nothing.
PilePriorityEnforced ==
    [][(op' = "complete_turn" /\ Len(args') = 1 /\ NumPlayers(game) >= 1) =>
        LET me == Actor(game)
            card == args'[1]
        IN  ( \/ (In(card, me.cards_face_up) /\ me.cards_hand # <<>>)
              \/ (In(card, me.cards_face_down)
                    /\ (me.cards_hand # <<>> \/ me.cards_face_up # <<>>)) )
            => (raised' /\ game' = game)]_vars

(***************************************************************************)
(* C4                                                                      *)
(***************************************************************************)
\* C4: opening lead: when the starting player's hand holds a non-ability card,
\* the options of the first init_turn after start_game hold only cards of the
\* rank of the lowest such card, and complete_turn rejects any card of another
\* rank as the first play of the match.
OpeningLead ==
    [][ /\ (op = "start_game" /\ op' = "init_turn" /\ ~raised'
                /\ get_lowest_card(game', Actor(game')) # 15) =>
              \A i \in 1..Len(options') :
                  get_card_rank(options'[i]) = get_lowest_card(game', Actor(game'))
        /\ (op = "init_turn" /\ ~raised /\ op' = "complete_turn" /\ NoPlayYet(game)
                /\ get_lowest_card(game, Actor(game)) # 15
                /\ Len(args') = 1 /\ args'[1] \in Cards
                /\ get_card_rank(args'[1]) # get_lowest_card(game, Actor(game)))
              => (raised' /\ game' = game) ]_vars

(***************************************************************************)
(* C5                                                                      *)
(***************************************************************************)
\* C5: legal-move query: init_turn returns the cards of the actor's first
\* non-empty pile (hand, else face_up, else face_down) that can_play_card accepts,
\* in pile order; ['#'] exactly when that pile is non-empty and holds no legal
\* card; [None] exactly when the actor's three piles are empty.
LegalMoveShape ==
    (op = "init_turn" /\ ~raised) =>
        LET me == Actor(game)
            pile == IF me.cards_hand # <<>> THEN me.cards_hand
                    ELSE IF me.cards_face_up # <<>> THEN me.cards_face_up
                    ELSE me.cards_face_down
            Legal(card) == can_play_card(game, card)
            legal == SelectSeq(pile, Legal)
        IN  /\ (options = <<None>>) <=> (pile = <<>>)
            /\ (options = <<PICKUP>>) <=> (pile # <<>> /\ legal = <<>>)
            /\ (legal # <<>>) => (options = legal)

\* the actor is down to the face_down pile, and no card of it is legal
LegalMoveShapeWitness ==
    /\ op = "init_turn" /\ ~raised
    /\ Actor(game).cards_hand = <<>> /\ Actor(game).cards_face_up = <<>>
    /\ Len(Actor(game).cards_face_down) >= 1
    /\ options = <<PICKUP>>

(***************************************************************************)
(* C6                                                                      *)
(***************************************************************************)
\* C6 as claimed: after a call of complete_turn with real actions that does not
\* end the game, turn_index is unchanged if and only if the actor's last recorded
\* action is the burn mark, and then the play stack is empty; otherwise
\* turn_index becomes (turn_index + 1) mod the number of players.
BurnKeepsTurnAnyRoster ==
    [][(Completed /\ ~game'.is_game_over /\ AllReal(args')) =>
        LET t == game.turn_index
            history == game'.round_actions[t + 1]
            burned == history # <<>> /\ Last(history) = BURNED
        IN  /\ (game'.turn_index = t) <=> burned
            /\ burned => game'.table_cards.stack_play = <<>>
            /\ ~burned => game'.turn_index = (t + 1) % NumPlayers(game)]_vars

\* C6 as amended: the same, in games of at least two players.
BurnKeepsTurn ==
    [][(Completed /\ ~game'.is_game_over /\ AllReal(args') /\ NumPlayers(game) >= 2) =>
        LET t == game.turn_index
            history == game'.round_actions[t + 1]
            burned == history # <<>> /\ Last(history) = BURNED
        IN  /\ (game'.turn_index = t) <=> burned
            /\ burned => game'.table_cards.stack_play = <<>>
            /\ ~burned => game'.turn_index = (t + 1) % NumPlayers(game)]_vars

\* a burn has kept the turn with an actor who still holds cards
BurnKeepsTurnWitness ==
    /\ op = "complete_turn" /\ ~raised /\ ~game.is_game_over
    /\ NumPlayers(game) >= 2
    /\ AllReal(args)
    /\ get_player_last_action(game) = BURNED
    /\ game.table_cards.stack_play = <<>>
    /\ ~is_winner(Actor(game))

(***************************************************************************)
(* C7                                                                      *)
(***************************************************************************)
\* the next player in cyclic order after turn_index who still holds a card
NextUnfinished(g) ==
    LET n == NumPlayers(g)
        steps == {k \in 1..n : ~is_winner(g.player_states[((g.turn_index + k) % n) + 1])}
    IN  (g.turn_index + Min(steps)) % n

FinishedNames(g) == {g.player_states[i].name : i \in (1..NumPlayers(g)) \ Unfinished(g)}

\* C8: game over by finishing: in a game of at least two players driven on the
\* options of init_turn, once at most one player is left holding cards the game
\* is over, exactly one player holds cards and winning_order holds every other
\* player once; winning_order grows only by the one player who emptied their
\* piles in the call, so it lists the players in the order they finished.
GameOverByFinishing ==
    /\ []((Playing /\ NumPlayers(game) >= 2 /\ Cardinality(Unfinished(game)) <= 1) =>
            /\ game.is_game_over
            /\ Cardinality(Unfinished(game)) = 1
            /\ Len(game.winning_order) = NumPlayers(game) - 1
            /\ ToSet(game.winning_order) = FinishedNames(game))
    /\ [][(Playing /\ NumPlayers(game) >= 2) =>
            LET finishers == Unfinished(game) \ Unfinished(game')
            IN  \/ finishers = {} /\ game'.winning_order = game.winning_order
                \/ /\ finishers = {game.turn_index + 1}
                   /\ op' = "complete_turn"
                   /\ game'.winning_order = Append(game.winning_order, Actor(game).name)]_vars

\* a game of three ended when the second of them finished
GameOverByFinishingWitness ==
    /\ op = "complete_turn" /\ game.is_game_over
    /\ NumPlayers(game) = 3
    /\ Len(game.winning_order) = 2
    /\ Cardinality(Unfinished(game)) = 1

(***************************************************************************)
(* C9                                                                      *)
(***************************************************************************)
\* C9: termination: a game of one or more players that has started and is driven
\* by init_turn followed by complete_turn on one of the returned options reaches
\* is_game_over.
Termination == (Playing /\ NumPlayers(game) >= 1) ~> game.is_game_over

\* the stalemate detector has ended a game in which two players still hold cards
TerminationWitness ==
    /\ game.is_game_over
    /\ Cardinality(Unfinished(game)) >= 2
    /\ game.same_cards_count = 10

(***************************************************************************)
(* C10                                                                     *)
(***************************************************************************)
\* C10: stalemate detection: while the deck is non-empty the repetition counter
\* does not change; at a round boundary with the deck empty the set of the cards
\* in any hand or on the play stack is compared with the stored one: the same set
\* adds one to the counter, another set is stored and resets the counter to 0;
\* and init_turn sets is_game_over exactly when the counter reaches 10.
StalemateDetection ==
    [][ LET boundary == op' = "init_turn" /\ game'.round_index = game.round_index + 1
            deck == game.table_cards.deck
            current_cards == HandsAndStack(game)
        IN  /\ deck # <<>> => game'.same_cards_count = game.same_cards_count
            /\ ~boundary =>
                  /\ game'.same_cards_count = game.same_cards_count
                  /\ game'.last_cards = game.last_cards
            /\ (boundary /\ deck = <<>>) =>
                  /\ IF game.last_cards = <<current_cards>>
                     THEN /\ game'.same_cards_count = game.same_cards_count + 1
                          /\ game'.last_cards = game.last_cards
                     ELSE /\ game'.same_cards_count = 0
                          /\ game'.last_cards = <<current_cards>>
                  /\ game'.is_game_over <=>
                        (game.is_game_over \/ game'.same_cards_count = 10)
            /\ (op' = "init_turn" /\ ~(boundary /\ deck = <<>>)) =>
                  game'.is_game_over = game.is_game_over ]_vars

\* the counter was reset by a changed set after it had counted boundaries
StalemateDetectionWitness ==
    /\ op = "init_turn"
    /\ game.table_cards.deck = <<>>
    /\ game.same_cards_count = 9
    /\ game.table_cards.stack_play # <<>>
    /\ ~game.is_game_over

(***************************************************************************)
(* C11                                                                     *)
(***************************************************************************)
\* C11: round boundary: round_index changes only by one, at a moment when
\* turn_index is start_index, and (once play has begun: the deal and the first
\* init_turn open rounds 1 and 2) only after every player index has been the
\* current actor since round_index last went up.  The last part is asked only
\* of an init_turn that follows a completed turn, as the game loop calls it.
RoundBoundary ==
    [][game'.round_index # game.round_index =>
        /\ game'.round_index = game.round_index + 1
        /\ game'.turn_index = game'.start_index
        /\ (game.round_index >= 2 /\ op = "complete_turn" /\ ~raised) =>
              acted = 0..(NumPlayers(game) - 1)]_vars

(***************************************************************************)
(* C12                                                                     *)
(***************************************************************************)
\* the game as the actions before the last one of a call of complete_turn left it
BeforeLast(actions) == After(game, actions, Len(actions) - 1)

\* a call of complete_turn came back without an error and its last action was a card
PlayedCard == Completed /\ args' # <<>> /\ Last(args') \in Cards

\* C12: burn triggers: after an accepted play of a card, if the card has rank 10
\* or the last four cards of the play stack with the card on it have one rank,
\* the whole play stack with the card is appended to the discard stack, the play
\* stack is empty and the burn mark follows the card in the actor's history;
\* otherwise the play stack is the old one with the card appended and the
\* discard stack is unchanged.
BurnTriggers ==
    [][PlayedCard =>
        LET before == BeforeLast(args')
            card == Last(args')
            t == game.turn_index + 1
            placed == Append(before.table_cards.stack_play, card)
            four == /\ Len(placed) >= 4
                    /\ \A i \in (Len(placed) - 3)..Len(placed) :
                          get_card_rank(placed[i]) = get_card_rank(card)
        IN  IF get_card_rank(card) = 10 \/ four
            THEN /\ game'.table_cards.stack_play = <<>>
                 /\ game'.table_cards.stack_discard = before.table_cards.stack_discard \o placed
                 /\ game'.round_actions[t] = before.round_actions[t] \o <<card, BURNED>>
            ELSE /\ game'.table_cards.stack_play = placed
                 /\ game'.table_cards.stack_discard = before.table_cards.stack_discard
                 /\ game'.round_actions[t] = Append(before.round_actions[t], card)]_vars

\* four of a kind, none of them a ten, have burned the play stack
BurnTriggersWitness ==
    /\ op = "complete_turn" /\ ~raised
    /\ args # <<>> /\ Last(args) \in Cards /\ get_card_rank(Last(args)) # 10
    /\ game.table_cards.stack_play = <<>>
    /\ Len(game.table_cards.stack_discard) >= 4
    /\ Last(game.table_cards.stack_discard) = Last(args)

(***************************************************************************)
(* C13, C14                                                                *)
(***************************************************************************)
\* the topmost card of a stack whose rank is not 3, None when there is none
TopmostVisible(stack) ==
    LET visible == {i \in 1..Len(stack) : get_card_rank(stack[i]) # 3}
    IN  IF visible = {} THEN None
        ELSE stack[CHOOSE i \in visible : \A j \in visible : j <= i]

\* can_play_card has answered for a card, the effective top card is a 7 and the
\* opening-lead rule is not in force
AnsweredOnSeven ==
    /\ op = "can_play_card"
    /\ get_card_rank(TopmostVisible(game.table_cards.stack_play)) = 7
    /\ ~(game.round_index = 1 /\ game.start_index = game.turn_index)

\* C13 as claimed: ConstrainLower symmetry: on an effective top card of rank 7
\* can_play_card rejects every card of rank 8..14 and accepts every card of rank
\* 2..7, whatever the suit.
ConstrainLowerSymmetry ==
    AnsweredOnSeven => (options[1] <=> get_card_rank(args[1]) \in 2..7)

\* C13 as amended: on an effective top card of rank 7 can_play_card accepts
\* every card of rank 2..7 and of rank 10, and rejects every card of rank 8, 9
\* and 11..14, whatever the suit.
ConstrainLowerExceptBurn ==
    AnsweredOnSeven => (options[1] <=> get_card_rank(args[1]) \in (2..7) \cup {10})

\* a 9 was refused on a 7 that lies under a 3
ConstrainLowerExceptBurnWitness ==
    /\ AnsweredOnSeven
    /\ Len(game.table_cards.stack_play) >= 2
    /\ get_card_rank(Last(game.table_cards.stack_play)) = 3
    /\ get_card_rank(args[1]) = 9
    /\ options[1] = FALSE

\* the sequences of up to MaxThrees distinct threes that are neither on the
\* stack nor the card asked about
ThreesFor(stack, card) ==
    LET threes == {Card(suit, 3) : suit \in 1..4} \ (ToSet(stack) \cup {card})
    IN  UNION {{f \in [1..k -> threes] : Injective(f)} : k \in 1..MaxThrees}

\* the position g with the cards of threes moved from the deck onto the stack
WithOnTop(g, threes) ==
    LET left(card) == ~In(card, threes)
    IN  [g EXCEPT !.table_cards.stack_play = @ \o threes,
                  !.table_cards.deck = SelectSeq(@, left)]

\* C14: Invisible semantics: the effective top card is the topmost card whose
\* rank is not 3, none for a stack that is empty or all threes; and
\* can_play_card gives for a card the same answer on a stack as on that stack
\* with any number of threes put on top.
InvisibleSemantics ==
    /\ op = "find_effective_top_card" =>
          options[1] = TopmostVisible(game.table_cards.stack_play)
    /\ op = "can_play_card" =>
          \A threes \in ThreesFor(game.table_cards.stack_play, args[1]) :
              can_play_card(WithOnTop(game, threes), args[1]) = options[1]

\* a 5 was refused on a stack that ends 9, 3
InvisibleSemanticsWitness ==
    /\ op = "can_play_card"
    /\ Len(game.table_cards.stack_play) >= 2
    /\ get_card_rank(Last(game.table_cards.stack_play)) = 3
    /\ get_card_rank(game.table_cards.stack_play[Len(game.table_cards.stack_play) - 1]) = 9
    /\ get_card_rank(args[1]) = 5
    /\ options[1] = FALSE

(***************************************************************************)
(* C15                                                                     *)
(***************************************************************************)
\* C15: pickup: the '#' action appends the play stack, in stack order, to the
\* actor's hand, empties the play stack and records '#' in the actor's history;
\* the deck, the discard stack, the actor's face_up and face_down piles and the
\* other players' piles stay as they were.
PickupFrame ==
    [][(Completed /\ args' # <<>> /\ Last(args') = PICKUP) =>
        LET before == BeforeLast(args')
            t == game.turn_index + 1
            me == before.player_states[t]
        IN  /\ game'.player_states[t].cards_hand = me.cards_hand \o before.table_cards.stack_play
            /\ game'.table_cards.stack_play = <<>>
            /\ game'.round_actions[t] = Append(before.round_actions[t], PICKUP)
            /\ game'.table_cards.deck = before.table_cards.deck
            /\ game'.table_cards.stack_discard = before.table_cards.stack_discard
            /\ game'.player_states[t].cards_face_up = me.cards_face_up
            /\ game'.player_states[t].cards_face_down = me.cards_face_down
            /\ \A i \in 1..NumPlayers(game) :
                  i # t => game'.player_states[i] = before.player_states[i]]_vars

\* a play stack of two or more cards was picked up by an actor who held cards
PickupFrameWitness ==
    /\ op = "complete_turn" /\ ~raised
    /\ args = <<PICKUP>>
    /\ game.table_cards.stack_play = <<>>
    /\ \E i \in 1..NumPlayers(game) :
          /\ Len(game.round_actions[i]) >= 1 /\ Last(game.round_actions[i]) = PICKUP
          /\ Len(game.player_states[i].cards_hand) >= 3

(***************************************************************************)
(* C16                                                                     *)
(***************************************************************************)
\* what a play of a card does to the deck and to the actor's hand
RefillOnPlay ==
    PlayedCard =>
        LET before == BeforeLast(args')
            card == Last(args')
            t == game.turn_index + 1
            me == before.player_states[t]
            deck == before.table_cards.deck
        IN  IF In(card, me.cards_hand)
            THEN IF deck # <<>>
                 THEN /\ game'.table_cards.deck = Front(deck)
                      /\ game'.player_states[t].cards_hand =
                            Append(Remove(card, me.cards_hand), Last(deck))
                 ELSE /\ game'.table_cards.deck = <<>>
                      /\ game'.player_states[t].cards_hand = Remove(card, me.cards_hand)
            ELSE /\ game'.table_cards.deck = deck
                 /\ game'.player_states[t].cards_hand = me.cards_hand

\* C16 as claimed: an accepted play from the hand moves the last card of a
\* non-empty deck into the actor's hand and draws nothing from an empty deck, a
\* play from face_up or face_down changes neither the deck nor the hand, and
\* after the deal no operation puts a card into a face_up or face_down pile.
RefillToHandOnly ==
    [][ /\ RefillOnPlay
        /\ op' # "start_game" =>
              \A i \in 1..NumPlayers(game) :
                  /\ ToSet(game'.player_states[i].cards_face_up)
                        \subseteq ToSet(game.player_states[i].cards_face_up)
                  /\ ToSet(game'.player_states[i].cards_face_down)
                        \subseteq ToSet(game.player_states[i].cards_face_down) ]_vars

\* C16 as amended: the same for plays; after the deal no operation puts a card
\* into a face_down pile or makes a face_up pile longer, and card_swap alone puts
\* a card into a face_up pile: a card of that player's hand, in exchange for a
\* face_up card that goes to the hand.
RefillToHandSwapToFaceUp ==
    [][ /\ RefillOnPlay
        /\ op' # "start_game" =>
              \A i \in 1..NumPlayers(game) :
                  LET was == game.player_states[i]
                      is == game'.player_states[i]
                      in == ToSet(is.cards_face_up) \ ToSet(was.cards_face_up)
                      out == ToSet(was.cards_face_up) \ ToSet(is.cards_face_up)
                  IN  /\ ToSet(is.cards_face_down) \subseteq ToSet(was.cards_face_down)
                      /\ Len(is.cards_face_up) <= Len(was.cards_face_up)
                      /\ in # {} =>
                            /\ op' = "card_swap" /\ ~raised'
                            /\ Cardinality(in) = 1 /\ Cardinality(out) = 1
                            /\ in \subseteq ToSet(was.cards_hand)
                            /\ out \subseteq ToSet(is.cards_hand) ]_vars

\* a card was played from face_up while the deck still held cards, and one was
\* played from the hand with the deck empty
RefillToHandSwapToFaceUpWitness ==
    /\ op = "complete_turn" /\ ~raised
    /\ Len(args) = 2 /\ args[1] \in Cards /\ args[2] \in Cards
    /\ game.table_cards.deck # <<>>
    /\ \E i \in 1..NumPlayers(game) :
          /\ game.player_states[i].cards_face_up = <<>>
          /\ Len(game.player_states[i].cards_hand) >= 1
          /\ Len(game.player_states[i].cards_face_down) >= 1

(***************************************************************************)
(* C17                                                                     *)
(***************************************************************************)
\* the least rank without an ability in a hand, 15 when there is none
LowestPlainRank(hand) ==
    LET plain == {get_card_rank(hand[i]) : i \in 1..Len(hand)} \ {2, 3, 7, 10}
    IN  IF plain = {} THEN 15 ELSE Min(plain)

\* C17: first actor: after the first init_turn that follows start_game,
\* start_index and turn_index are the smallest player index whose hand's lowest
\* rank without an ability is the least among all players; when every hand holds
\* ability ranks only, the index stays where it was (0).
FirstActor ==
    [][(op = "start_game" /\ ~raised /\ op' = "init_turn" /\ NumPlayers(game) >= 1) =>
        LET low == [i \in 1..NumPlayers(game) |->
                        LowestPlainRank(game.player_states[i].cards_hand)]
            least == Min({low[i] : i \in 1..NumPlayers(game)})
            first == IF least = 15 THEN 0
                     ELSE Min({i \in 1..NumPlayers(game) : low[i] = least}) - 1
        IN  /\ game'.start_index = first
            /\ game'.turn_index = first]_vars

\* two players tie for the lowest card, and the first of the two leads
FirstActorWitness ==
    /\ op = "init_turn" /\ ~raised /\ game.round_index = 2 /\ NoPlayYet(game)
    /\ game.start_index = game.turn_index
    /\ LowestPlainRank(Actor(game).cards_hand) # 15
    /\ \E j \in 1..NumPlayers(game) :
          /\ j > game.turn_index + 1
          /\ LowestPlainRank(game.player_states[j].cards_hand)
                = LowestPlainRank(Actor(game).cards_hand)

(***************************************************************************)
(* C18                                                                     *)
(***************************************************************************)
\* C18: an empty roster is rejected: start_game on a GameState built from no
\* players raises and begins no game: no round is opened and game_start_time
\* stays unset.
EmptyRosterRejected ==
    (op = "start_game" /\ NumPlayers(game) = 0) =>
        /\ raised
        /\ game.n_rounds = 0
        /\ game.game_start_time = NOTHING

(***************************************************************************)
(* C19                                                                     *)
(***************************************************************************)
\* the actor has nothing left to play from but the face_down pile
FaceDownOnly(g) ==
    /\ NumPlayers(g) >= 1
    /\ Actor(g).cards_hand = <<>>
    /\ Actor(g).cards_face_up = <<>>
    /\ Actor(g).cards_face_down # <<>>

\* the cards the actor has never seen: the deck and the others' face_down piles
HiddenFrom(g) ==
    ToSet(g.table_cards.deck) \cup
    UNION {ToSet(g.player_states[i].cards_face_down) :
              i \in (1..NumPlayers(g)) \ {g.turn_index + 1}}

\* the game g with the cards a and b in each other's place
Exchanged(g, a, b) ==
    LET other(card) == IF card = a THEN b ELSE IF card = b THEN a ELSE card
        each(pile) == [k \in 1..Len(pile) |-> other(pile[k])]
    IN  [g EXCEPT !.table_cards.deck = each(@),
                  !.player_states = [i \in 1..NumPlayers(g) |->
                        [@[i] EXCEPT !.cards_face_down = each(@)]]]

\* the positions in the actor's face_down pile of the cards init_turn returns
PositionsOffered(g, cards) ==
    {k \in 1..Len(Actor(g).cards_face_down) : In(Actor(g).cards_face_down[k], cards)}

\* C19: face-down cards are blind: when the actor's hand and face_up pile are
\* empty, what init_turn returns is, up to the positions in the face_down pile,
\* the same in every game that differs only in which hidden cards lie face down
\* before the actor.
FaceDownBlind ==
    (op = "init_turn" /\ ~raised /\ FaceDownOnly(game)) =>
        \A k \in 1..Len(Actor(game).cards_face_down) : \A hidden \in HiddenFrom(game) :
            PositionsOffered(Exchanged(game, Actor(game).cards_face_down[k], hidden),
                get_playable_cards(Exchanged(game, Actor(game).cards_face_down[k], hidden),
                                   game.turn_index))
                = PositionsOffered(game, options)

(***************************************************************************)
(* C20                                                                     *)
(***************************************************************************)
\* C20: belief certainty: after a successful move_card(c, A, B), for every pair
\* of the nine locations, the probability of c is 1 at B and 0 at every other
\* location, and the probabilities of every other card are unchanged.
BeliefCertainty ==
    [][(op' = "move_card" /\ ~raised') =>
        \A loc \in Locations : \A i \in ProbIndexes :
            prob_model'.card_probabilities[loc][i] =
                IF i # card_to_index(args'[1]) THEN prob_model.card_probabilities[loc][i]
                ELSE IF loc = args'[3] THEN One
                ELSE Zero]_vars

\* an unseen card whose probability had been spread over the buckets was moved
\* from a hand to the play stack, beside another card that is still unseen
BeliefCertaintyWitness ==
    /\ op = "move_card" /\ ~raised
    /\ args[2] = "player_hand" /\ args[3] = "play_stack"
    /\ \E i \in ProbIndexes :
          /\ prob_model.unseen_cards[i] = 1
          /\ prob_model.card_probabilities["player_hand"][i] \notin {Zero, One}

(***************************************************************************)
(* C21                                                                     *)
(***************************************************************************)
\* C21: belief inconsistency is surfaced: move_card(c, A, B) called when the
\* probability of c at A is 0 signals an error and leaves the whole model (the
\* probabilities, the unseen flags, the five counters and top_card) unchanged.
InconsistencySurfaced ==
    [][(/\ op' = "move_card"
        /\ args'[1] \in ProbCards
        /\ prob_model.card_probabilities[args'[2]][card_to_index(args'[1])] = Zero) =>
            /\ raised'
            /\ prob_model' = prob_model]_vars

\* a card that an earlier call had moved to the play stack was asked for in
\* the deck
InconsistencySurfacedWitness ==
    /\ op = "move_card" /\ raised
    /\ args[1] \in ProbCards /\ args[2] = "deck"
    /\ prob_model.card_probabilities["play_stack"][card_to_index(args[1])] = One
    /\ prob_model.top_card = args[1]

(***************************************************************************)
(* C22                                                                     *)
(***************************************************************************)
\* the counter the code keeps for a location, for the five that have one
Counter(m, loc) ==
    CASE loc = "deck" -> m.deck_count
      [] loc = "player_hand" -> m.player_unseen_hand_count
      [] loc = "opponent_hand" -> m.opponent_unseen_hand_count
      [] loc = "player_face_down" -> m.player_face_down_count
      [] loc = "opponent_face_down" -> m.opponent_face_down_count

\* C22: deal_unseen(n, loc): if loc is not one of the four hidden buckets or n
\* exceeds deck_count, an error is signalled and the model is unchanged;
\* otherwise deck_count goes down by n, the counter of loc goes up by n, and no
\* probability, unseen flag or other counter changes.
DealUnseenEffect ==
    [][op' = "deal_unseen" =>
        IF args'[2] \notin HiddenBuckets \/ args'[1] > prob_model.deck_count
        THEN /\ raised'
             /\ prob_model' = prob_model
        ELSE /\ ~raised'
             /\ prob_model'.deck_count = prob_model.deck_count - args'[1]
             /\ Counter(prob_model', args'[2]) = Counter(prob_model, args'[2]) + args'[1]
             /\ \A loc \in HiddenBuckets \ {args'[2]} :
                   Counter(prob_model', loc) = Counter(prob_model, loc)
             /\ prob_model'.card_probabilities = prob_model.card_probabilities
             /\ prob_model'.unseen_cards = prob_model.unseen_cards
             /\ prob_model'.top_card = prob_model.top_card]_vars

\* a deal to one bucket went through after a deal to another
DealUnseenEffectWitness ==
    /\ op = "deal_unseen" /\ ~raised
    /\ args[2] = "opponent_face_down"
    /\ prob_model.opponent_face_down_count = args[1]
    /\ prob_model.player_unseen_hand_count >= 1
    /\ prob_model.deck_count < ProbDeckSize - args[1]

(***************************************************************************)
(* C23                                                                     *)
(***************************************************************************)
\* the top cards get_playable_probability is asked about
TopCards == ProbDeck \cup {NOTHING}

\* a fraction in lowest terms with a positive denominator that lies in [0, 1]
InUnit(a) == 0 <= a[1] /\ a[1] <= a[2]

\* some card with a non-zero probability at loc is legal against top_card
SomePlayable(m, loc, top_card) ==
    \E card \in ProbDeck :
        /\ m.card_probabilities[loc][card_to_index(card)] # Zero
        /\ can_play_card_on(card, top_card, magic_cards)

\* the value lies in [0, 1]
PlayableValueInUnit ==
    \A loc \in Locations : \A top_card \in TopCards :
        InUnit(get_playable_probability(prob_model, loc, top_card).value)

\* the value is 0 exactly when no card is playable
PlayableValueZeroIffNone ==
    \A loc \in Locations : \A top_card \in TopCards :
        get_playable_probability(prob_model, loc, top_card).value = Zero
            <=> ~SomePlayable(prob_model, loc, top_card)

\* the result has one shape, with or without a playable card
PlayableResultOneShape ==
    \A loc \in Locations : \A top_card \in TopCards :
        get_playable_probability(prob_model, loc, top_card).shape = "tuple"

\* C23: playable-probability bound: for every model state, location and top
\* card the value 1 - prod(1 - p_i) of get_playable_probability lies in [0, 1]
\* and is 0 exactly when no card with a non-zero probability at the location is
\* legal against the top card; the result has the same shape in both cases, and
\* generate_playable_cards succeeds whether or not a playable card exists.
PlayableProbabilityBound ==
    /\ PlayableValueInUnit
    /\ PlayableValueZeroIffNone
    /\ PlayableResultOneShape
    /\ op = "generate_playable_cards" => ~raised

(***************************************************************************)
(* C24                                                                     *)
(***************************************************************************)
\* the cards with a non-zero probability at loc that are legal on the top card
Candidates(m, loc) ==
    {card \in ProbDeck :
        /\ m.card_probabilities[loc][card_to_index(card)] # Zero
        /\ can_play_card_on(card, m.top_card, magic_cards)}

\* C24: candidate set of the search node: generate_playable_cards(loc) sets
\* playable_cards to exactly the cards that have a non-zero probability at loc
\* in the node's model and are legal against its top_card, in ascending order
\* of card index; a card known to be elsewhere never appears.
CandidateSet ==
    [][op' = "generate_playable_cards" =>
        /\ ToSet(node'.playable_cards) = Candidates(prob_model, args'[1])
        /\ \A i, j \in 1..Len(node'.playable_cards) :
              i < j => card_to_index(node'.playable_cards[i])
                          < card_to_index(node'.playable_cards[j])]_vars


\* C25: simulate_moves attaches one child per candidate card, in candidate
\* order, after the children the node already has; each child's layer is the
\* parent's layer plus one and its snapshot is the parent's after
\* move_card(card, location, play_stack), deal_unseen(1, location) and
\* update_probabilities; the parent's snapshot is unchanged and no call
\* fails, whatever deck_count is.
Simulated(m, card, from_loc) ==
    update_probabilities(deal_unseen(move_card(m, card, from_loc, "play_stack").m,
                                     1, from_loc).m)

SearchExpansion ==
    [][op' = "simulate_moves" =>
        /\ ~raised'
        /\ prob_model' = prob_model
        /\ Len(node'.child_nodes) = Len(node.child_nodes) + Len(node.playable_cards)
        /\ \A i \in 1..Len(node.child_nodes) : node'.child_nodes[i] = node.child_nodes[i]
        /\ \A i \in 1..Len(node.playable_cards) :
              /\ node'.child_nodes[Len(node.child_nodes) + i].layer = node.layer + 1
              /\ node'.child_nodes[Len(node.child_nodes) + i].prob_model
                    = Simulated(prob_model, node.playable_cards[i], args'[1])]_vars

\* ------------------------------------------------------------------------
\* The card codecs on card strings (prob_model.py and AI.py).  A card string
\* is the sequence of its characters: 'h02' is <<"h", "0", "2">>, '#' is
\* <<"#">> and '' is <<>>.  card_to_index and index_to_card above are the
\* codec of prob_model.py on card ids, where Card(suit, rank) names the
\* string CardStr(suit, rank).
suit_order == [h |-> 0, d |-> 1, c |-> 2, s |-> 3]
suits == <<"h", "d", "c", "s">>
DigitChars == <<"0", "1", "2", "3", "4", "5", "6", "7", "8", "9">>

\* str(n) of an integer n >= 0
RECURSIVE str(_)
str(n) ==
    IF n < 10 THEN <<DigitChars[n + 1]>>
    ELSE Append(str(n \div 10), DigitChars[(n % 10) + 1])

\* text.zfill(width) of a text without a sign
RECURSIVE zfill(_, _)
zfill(text, width) == IF Len(text) >= width THEN text ELSE zfill(<<"0">> \o text, width)

\* int(text) of a non-empty text of decimal digits
int_of_last(text) == CHOOSE digit \in 0..9 : DigitChars[digit + 1] = text[Len(text)]
RECURSIVE int(_)
int(text) ==
    LET value(char) == CHOOSE digit \in 0..9 : DigitChars[digit + 1] = char
    IN  IF Len(text) = 1 THEN value(text[1])
        ELSE 10 * int(SubSeq(text, 1, Len(text) - 1)) + value(text[Len(text)])

\* int(card[1:]) raises ValueError on anything but digits, suit_order[card[0]]
\* raises KeyError on anything but a suit letter
Parses(card) ==
    /\ Len(card) >= 2
    /\ \A i \in 2..Len(card) : card[i] \in ToSet(DigitChars)
    /\ card[1] \in DOMAIN suit_order

\* the card strings of the deck: f'{suit}{str(i).zfill(2)}'
CardStr(suit, rank) == <<suits[suit]>> \o zfill(str(rank), 2)

\* prob_model.card_to_index on a card string: [value, err]
card_to_index_str(card) ==
    IF card = <<>> THEN [value |-> 60, err |-> FALSE]
    ELSE IF card = <<"#">> THEN [value |-> 52, err |-> FALSE]
    ELSE IF ~Parses(card) THEN [value |-> None, err |-> TRUE]
    ELSE [value |-> (int(Tail(card)) - 2) + 13 * suit_order[card[1]], err |-> FALSE]

\* prob_model.index_to_card to a card string: [value, err]; suits[index // 13]
\* raises IndexError from index 53 on
index_to_card_str(index) ==
    IF index = 52 THEN [value |-> <<"#">>, err |-> FALSE]
    ELSE IF index = 60 THEN [value |-> <<>>, err |-> FALSE]
    ELSE IF (index \div 13) + 1 > Len(suits) THEN [value |-> None, err |-> TRUE]
    ELSE [value |-> <<suits[(index \div 13) + 1]>> \o zfill(str((index % 13) + 2), 2),
          err |-> FALSE]

\* AI.card_to_index: no case for '#'
AI_card_to_index(card) ==
    IF card = <<>> THEN [value |-> 60, err |-> FALSE]
    ELSE IF ~Parses(card) THEN [value |-> None, err |-> TRUE]
    ELSE [value |-> (int(Tail(card)) - 2) + 13 * suit_order[card[1]], err |-> FALSE]

\* AI.index_to_card: no case for 52
AI_index_to_card(index) ==
    IF index = 60 THEN [value |-> <<>>, err |-> FALSE]
    ELSE IF (index \div 13) + 1 > Len(suits) THEN [value |-> None, err |-> TRUE]
    ELSE [value |-> <<suits[(index \div 13) + 1]>> \o zfill(str((index % 13) + 2), 2),
          err |-> FALSE]

CodecModules == {"prob_model", "AI"}
Encoded(module, card) ==
    IF module = "AI" THEN AI_card_to_index(card) ELSE card_to_index_str(card)
Decoded(module, index) ==
    IF module = "AI" THEN AI_index_to_card(index) ELSE index_to_card_str(index)

\* the inputs: the 52 cards of the deck, the two sentinels, the one-digit
\* spellings 'h2'..'s9'; every index up to the no-card value
CodecCards == {CardStr(suit, rank) : suit \in 1..4, rank \in 2..14}
CodecTexts ==
    CodecCards \cup {<<>>, <<"#">>}
        \cup {<<suits[suit], DigitChars[rank + 1]>> : suit \in 1..4, rank \in 2..9}
CodecIndexes == 0..60

\* args is <<module, kind of input, input>>; options collects the results
CodecInit ==
    /\ game = GameState(2)
    /\ op = "__init__"
    /\ raised = FALSE
    /\ options = <<>>
    /\ calls = 0
    /\ acted = {0}
    /\ prob_model = None
    /\ node = None
    /\ lobbies = <<>>
    /\ heap = <<>>
    /\ tasks = <<>>
    /\ \E module \in CodecModules :
          \/ \E card \in CodecTexts : args = <<module, "card", card>>
          \/ \E index \in CodecIndexes : args = <<module, "index", index>>

\* encode the input, or the card the decoding of the input gave
CardToIndex ==
    /\ ~raised
    /\ IF calls = 0 THEN args[2] = "card" ELSE calls = 1 /\ op = "index_to_card"
    /\ LET result == Encoded(args[1], IF calls = 0 THEN args[3] ELSE options[1])
       IN  /\ options' = IF result.err THEN options ELSE Append(options, result.value)
           /\ raised' = result.err
    /\ op' = "card_to_index"
    /\ calls' = calls + 1
    /\ UNCHANGED <<game, args, acted, prob_model, node>>
    /\ UNCHANGED <<lobbies, heap, tasks>>

\* decode the input, or the index the encoding of the input gave
IndexToCard ==
    /\ ~raised
    /\ IF calls = 0 THEN args[2] = "index" ELSE calls = 1 /\ op = "card_to_index"
    /\ LET result == Decoded(args[1], IF calls = 0 THEN args[3] ELSE options[1])
       IN  /\ options' = IF result.err THEN options ELSE Append(options, result.value)
           /\ raised' = result.err
    /\ op' = "index_to_card"
    /\ calls' = calls + 1
    /\ UNCHANGED <<game, args, acted, prob_model, node>>
    /\ UNCHANGED <<lobbies, heap, tasks>>

CodecNext == CardToIndex \/ IndexToCard

CodecSpec == CodecInit /\ [][CodecNext]_vars

\* C26: in both modules, card_to_index of the card of a rank in 2..14 and a
\* suit is (rank - 2) + 13 * suit index, lies in 0..51 and is the index of no
\* other card, and index_to_card gives the card back; index_to_card of an
\* index in 0..51 followed by card_to_index gives the index back; in
\* prob_model '#' goes to 52 and back and '' goes to 60 and back.
CodecRoundTrip ==
    /\ (calls >= 1 /\ args[2] = "card" /\ args[3] \in CodecCards) =>
          /\ ~raised
          /\ options[1] \in 0..51
          /\ \A suit \in 1..4, rank \in 2..14 :
                IF args[3] = CardStr(suit, rank)
                THEN options[1] = (rank - 2) + 13 * (suit - 1)
                ELSE Encoded(args[1], CardStr(suit, rank)).value # options[1]
          /\ calls = 2 => options[2] = args[3]
    /\ (calls >= 1 /\ args[2] = "index" /\ args[3] \in 0..51) =>
          /\ ~raised
          /\ calls = 2 => options[2] = args[3]
    /\ (calls >= 1 /\ args[1] = "prob_model" /\ args[2] = "card"
            /\ args[3] \in {<<"#">>, <<>>}) =>
          /\ ~raised
          /\ options[1] = IF args[3] = <<>> THEN 60 ELSE 52
          /\ calls = 2 => options[2] = args[3]
    /\ (calls >= 1 /\ args[1] = "prob_model" /\ args[2] = "index"
            /\ args[3] \in {52, 60}) =>
          /\ ~raised
          /\ options[1] = IF args[3] = 60 THEN <<>> ELSE <<"#">>
          /\ calls = 2 => options[2] = args[3]

CodecRoundTripWitness ==
    /\ op = "index_to_card"
    /\ calls = 2
    /\ args = <<"AI", "card", <<"s", "0", "9">>>>
    /\ options = <<46, <<"s", "0", "9">>>>

\* C27: outside the opening lead can_play_card accepts a card exactly when
\* (a) there is no effective top card, or (b) the card's rank has an ability
\* and the effective top rank is one it can be played onto (2, 3 and 10 onto
\* any rank, 7 onto 2..7 only), or (c) the card has no ability and the
\* effective top is a 7 and the card's rank is at most 7, or the effective top
\* is a 2, or the effective top has no ability and the card's rank is at least
\* its rank.
AbilityRanks == {2, 3, 7, 10}

LegalOn(card_rank, top) ==
    \/ top = None
    \/ /\ card_rank \in AbilityRanks
       /\ card_rank \in {2, 3, 10} \/ get_card_rank(top) \in 2..7
    \/ /\ card_rank \notin AbilityRanks
       /\ \/ get_card_rank(top) = 7 /\ card_rank <= 7
          \/ get_card_rank(top) = 2
          \/ get_card_rank(top) \notin AbilityRanks /\ card_rank >= get_card_rank(top)

LegalityAlgorithm ==
    (/\ op = "can_play_card"
     /\ ~(game.round_index = 1 /\ game.start_index = game.turn_index)) =>
        (options[1] <=> LegalOn(get_card_rank(args[1]),
                                TopmostVisible(game.table_cards.stack_play)))

\* a 4 was accepted on a 2 that lies on a queen
LegalityAlgorithmWitness ==
    /\ op = "can_play_card"
    /\ game.round_index = 2
    /\ Len(game.table_cards.stack_play) >= 2
    /\ get_card_rank(Last(game.table_cards.stack_play)) = 2
    /\ get_card_rank(game.table_cards.stack_play[Len(game.table_cards.stack_play) - 1]) = 12
    /\ get_card_rank(args[1]) = 4
    /\ options[1] = TRUE

\* C28: discard is permanent: every step leaves the cards of stack_discard
\* where they are and at most appends to them, and no card of stack_discard is
\* in the deck, on the play stack or in a player's pile.
DiscardPermanent ==
    [][/\ Len(game.table_cards.stack_discard) <= Len(game'.table_cards.stack_discard)
       /\ SubSeq(game'.table_cards.stack_discard, 1, Len(game.table_cards.stack_discard))
             = game.table_cards.stack_discard
       /\ \A card \in ToSet(game'.table_cards.stack_discard) :
             /\ ~In(card, game'.table_cards.deck)
             /\ ~In(card, game'.table_cards.stack_play)
             /\ ~In(card, Piles(game', 1))]_vars

\* a card was played after a burn
DiscardPermanentWitness ==
    /\ op = "complete_turn"
    /\ ~raised
    /\ game.table_cards.stack_discard # <<>>
    /\ game.table_cards.stack_play # <<>>

\* C29: a move_card that succeeds on a card still marked unseen clears the
\* card's unseen flag and no other, and takes one off the counter of from_loc,
\* which is the deck or one of the four hidden buckets, and off no other
\* counter; one that succeeds on a known card changes no counter and no unseen
\* flag; and a move to play_stack makes the card the top_card.
CounterBuckets == HiddenBuckets \cup {"deck"}

FirstReveal ==
    [][(op' = "move_card" /\ ~raised') =>
        LET card_index == card_to_index(args'[1])
            from_loc == args'[2]
        IN  /\ IF prob_model.unseen_cards[card_index] = 1
               THEN /\ prob_model'.unseen_cards
                          = [prob_model.unseen_cards EXCEPT ![card_index] = 0]
                    /\ from_loc \in CounterBuckets
                    /\ \A loc \in CounterBuckets :
                          Counter(prob_model', loc)
                              = Counter(prob_model, loc) - (IF loc = from_loc THEN 1 ELSE 0)
               ELSE /\ prob_model'.unseen_cards = prob_model.unseen_cards
                    /\ \A loc \in CounterBuckets :
                          Counter(prob_model', loc) = Counter(prob_model, loc)
            /\ args'[3] = "play_stack" => prob_model'.top_card = args'[1]]_vars

\* a card was played from the player's hand, with one card gone from the deck
\* and no unseen card left in that hand
FirstRevealWitness ==
    /\ op = "move_card"
    /\ ~raised
    /\ args[2] = "player_hand"
    /\ args[3] = "play_stack"
    /\ prob_model.top_card = args[1]
    /\ prob_model.deck_count = ProbDeckSize - 1
    /\ prob_model.player_unseen_hand_count = 0

\* C30: after update_probabilities every card still marked unseen has, at the
\* deck and at each of the four hidden buckets, the probability counter of the
\* bucket / number of unseen cards; every known card has the probabilities it
\* had, 1 at one location and 0 at the others; and the counters, the unseen
\* flags and top_card are unchanged.
UniformReestimation ==
    [][op' = "update_probabilities" =>
        /\ ~raised'
        /\ \A i \in ProbIndexes :
              IF prob_model.unseen_cards[i] = 1
              THEN \A loc \in CounterBuckets :
                      /\ prob_model'.card_probabilities[loc][i][2] > 0
                      /\ prob_model'.card_probabilities[loc][i][1] * total_unseen(prob_model)
                            = Counter(prob_model, loc)
                                * prob_model'.card_probabilities[loc][i][2]
              ELSE \E at \in Locations : \A loc \in Locations :
                      /\ prob_model'.card_probabilities[loc][i]
                            = prob_model.card_probabilities[loc][i]
                      /\ prob_model'.card_probabilities[loc][i]
                            = IF loc = at THEN One ELSE Zero
        /\ \A loc \in CounterBuckets : Counter(prob_model', loc) = Counter(prob_model, loc)
        /\ prob_model'.unseen_cards = prob_model.unseen_cards
        /\ prob_model'.top_card = prob_model.top_card]_vars

\* re-estimated with a card known, cards unseen and cards dealt to the
\* opponent's hand
UniformReestimationWitness ==
    /\ op = "update_probabilities"
    /\ \E i, j \in ProbIndexes :
          /\ prob_model.unseen_cards[i] = 0
          /\ prob_model.unseen_cards[j] = 1
          /\ prob_model.card_probabilities["opponent_hand"][j] \notin {Zero, One}
          /\ prob_model.card_probabilities["opponent_hand"][i] = Zero

\* C31: init_turn is a pure query: a call of init_turn right after a call of
\* init_turn returns the same options and leaves round_index, the history of
\* the rounds, same_cards_count, last_cards, is_game_over, start_index and
\* turn_index as they were.
InitTurnPure ==
    [][(op = "init_turn" /\ ~raised /\ op' = "init_turn") =>
        /\ ~raised'
        /\ options' = options
        /\ game'.round_index = game.round_index
        /\ game'.n_rounds = game.n_rounds
        /\ game'.round_actions = game.round_actions
        /\ game'.same_cards_count = game.same_cards_count
        /\ game'.last_cards = game.last_cards
        /\ game'.is_game_over = game.is_game_over
        /\ game'.start_index = game.start_index
        /\ game'.turn_index = game.turn_index]_vars

\* C32: hands stay full while the deck lasts: once start_game has dealt, in
\* every state with a card left in the deck every player's hand holds at least
\* the DealCount cards it was dealt; and a complete_turn on an option of the
\* init_turn before it plays a face_up or face_down card only when the deck
\* was already empty.
HandsStayFull ==
    [][/\ (game'.game_start_time # NOTHING /\ game'.table_cards.deck # <<>>) =>
              \A i \in 1..NumPlayers(game') :
                  Len(game'.player_states[i].cards_hand) >= DealCount
       /\ (/\ op = "init_turn" /\ ~raised
           /\ op' = "complete_turn"
           /\ \E i \in 1..Len(options) : args' = <<options[i]>>
           /\ \/ In(args'[1], Actor(game).cards_face_up)
              \/ In(args'[1], Actor(game).cards_face_down)) =>
              game.table_cards.deck = <<>>]_vars

\* a card was played from the hand and replaced, with cards left in the deck
HandsStayFullWitness ==
    /\ op = "complete_turn"
    /\ ~raised
    /\ args # <<>> /\ args[1] \in Cards
    /\ In(args[1], game.table_cards.stack_play)
    /\ game.table_cards.deck # <<>>
    /\ \A i \in 1..NumPlayers(game) : Len(game.player_states[i].cards_hand) >= DealCount

\* C33: finished is absorbing: once is_game_over is true it stays true, and a
\* complete_turn called while it is true moves no card between piles, records
\* no action and leaves turn_index as it was.
FinishedAbsorbing ==
    [][game.is_game_over =>
        /\ game'.is_game_over
        /\ op' = "complete_turn" =>
              /\ game'.player_states = game.player_states
              /\ game'.table_cards = game.table_cards
              /\ game'.round_actions = game.round_actions
              /\ game'.turn_index = game.turn_index]_vars

\* C34: reset restores a clean match: after a match has ended, reset (with or
\* without a new roster) and then start_game leave every player with exactly
\* the dealt DealCount cards in each pile, every card of the fresh deck in
\* exactly one place and no other card anywhere, and same_cards_count and
\* last_cards at their initial values.
ResetRestores ==
    (op = "start_game" /\ calls = 1) =>
        /\ ~raised
        /\ \A i \in 1..NumPlayers(game) :
              /\ Len(game.player_states[i].cards_hand) = DealCount
              /\ Len(game.player_states[i].cards_face_up) = DealCount
              /\ Len(game.player_states[i].cards_face_down) = DealCount
        /\ Len(AllCards(game)) = Len(NewDeck)
        /\ ToSet(AllCards(game)) = Cards
        /\ game.same_cards_count = 0
        /\ game.last_cards = <<>>

\* C35: unseen mass balance: in every state of the belief model the five
\* counters add up to the number of cards still marked unseen; and right after
\* update_probabilities the probabilities of every unseen card over the nine
\* locations add up to 1.
FracPlus(a, b) == Frac(a[1] * b[2] + b[1] * a[2], a[2] * b[2])

\* the keys of card_probabilities in the order of the dictionary
LocationOrder ==
    <<"player_hand", "opponent_hand", "player_face_up", "opponent_face_up",
      "player_face_down", "opponent_face_down", "discarded", "play_stack", "deck">>

\* the probabilities of the card at index i over the first k locations, added up
RECURSIVE MassOver(_, _, _)
MassOver(m, i, k) ==
    IF k = 0 THEN Zero
    ELSE FracPlus(MassOver(m, i, k - 1), m.card_probabilities[LocationOrder[k]][i])

CountersNonNegative ==
    /\ \A loc \in CounterBuckets : Counter(prob_model, loc) >= 0
    /\ op = "update_probabilities" =>
          \A loc \in Locations : \A i \in ProbIndexes :
              /\ prob_model.card_probabilities[loc][i][1] >= 0
              /\ prob_model.card_probabilities[loc][i][1]
                    <= prob_model.card_probabilities[loc][i][2]

(***************************************************************************)
(* shed_server.py: the lobbies and the coroutines that serve them.         *)
(*                                                                         *)
(* A dictionary is the sequence of its entries [key, value] in insertion   *)
(* order.  `lobbies` maps a lobby name to the position in `heap` of its     *)
(* Lobby object, so that a method that is suspended on a Lobby keeps       *)
(* running on that object when the name is deleted or bound again.         *)
(* `tasks` holds the frame of every coroutine: task c is join_lobby for    *)
(* connection c, whose websocket is c too, and task heartbeat_task(c) is   *)
(* the heartbeat it creates.  A step of a task runs from one await that    *)
(* suspends to the next.  The clock is left out: Player keeps webSocket    *)
(* and ready only, and the player that messagePlayer would close for a     *)
(* late pong is a player whose connection may drop at any time.            *)
(***************************************************************************)
\* websocket connections that are made, each once
MaxConnections == 2
\* Lobby objects that create_lobby constructs
MaxLobbies == 1

LobbyNames == {"lobby"}
\* names players join under
JoinNames == {"ann", "bob"}
Connections == 1..MaxConnections
Tasks == 1..(2 * MaxConnections)

heartbeat_task(c) == MaxConnections + c
IsHeartbeat(t) == t > MaxConnections

\* texts a client sends
ReadyTrue == "{\"type\": \"ready\", \"is_ready\": true}"
ReadyFalse == "{\"type\": \"ready\", \"is_ready\": false}"
Data == {"pong", "{}", ReadyTrue, ReadyFalse}

\* the local `action` before its first assignment
NoAction == [type |-> "", is_ready |-> FALSE]

parse_action(message) ==
    CASE message = ReadyTrue ->
            [err |-> FALSE, value |-> [type |-> "ready", is_ready |-> TRUE]]
      [] message = ReadyFalse ->
            [err |-> FALSE, value |-> [type |-> "ready", is_ready |-> FALSE]]
      [] OTHER -> [err |-> TRUE, value |-> NoAction]

\* the messages the server sends
NoMessage == [type |-> "", player |-> "", is_ready |-> FALSE, all_ready |-> FALSE]
Ping == [NoMessage EXCEPT !.type = "ping"]
READY_STATE(player_name, is_ready) ==
    [NoMessage EXCEPT !.type = "ready_state", !.player = player_name,
                      !.is_ready = is_ready]
ALL_READY(all_ready) ==
    [NoMessage EXCEPT !.type = "all_ready", !.all_ready = all_ready]

\* dictionaries
Keys(d) == [i \in 1..Len(d) |-> d[i].key]
Has(d, k) == \E i \in 1..Len(d) : d[i].key = k
Get(d, k) == d[CHOOSE i \in 1..Len(d) : d[i].key = k].value
Put(d, k, v) ==
    IF Has(d, k)
    THEN [i \in 1..Len(d) |-> IF d[i].key = k THEN [key |-> k, value |-> v] ELSE d[i]]
    ELSE Append(d, [key |-> k, value |-> v])
Del(d, k) == SelectSeq(d, LAMBDA e : e.key # k)

Player(webSocket) == [webSocket |-> webSocket, ready |-> FALSE]
Lobby(name) == [name |-> name, players |-> <<>>, lock |-> <<>>]

\* the frame of a task that has not started
Idle ==
    [pc |-> "idle", lobby_name |-> "", player_name |-> "", action |-> NoAction,
     message |-> NoMessage, self |-> 0, player |-> "", targets |-> <<>>,
     then |-> ""]

\* the server as the operators below pass it on
Server == [lobbies |-> lobbies, heap |-> heap, tasks |-> tasks]

\* all([player.ready for _, player in players.items()])
all_ready(players) == \A i \in 1..Len(players) : players[i].value.ready

\* task t asks for the lock of Lobby id: asyncio.Lock serves in turn
Enqueue(s, t, id) == [s EXCEPT !.heap[id].lock = Append(@, t)]
Holds(s, t) ==
    /\ s.tasks[t].self # 0
    /\ s.heap[s.tasks[t].self].lock # <<>>
    /\ Head(s.heap[s.tasks[t].self].lock) = t
\* the end of `async with self.lock`
Release(s, t) == [s EXCEPT !.heap[s.tasks[t].self].lock = Tail(@)]

\* heartbeat_task.cancel(): the task leaves the await it is suspended in
cancel(s, h) ==
    IF s.tasks[h].pc \notin {"sleep", "lock", "send"} THEN s
    ELSE LET id == s.tasks[h].self
         IN  [s EXCEPT !.tasks[h].pc = "cancelled",
                       !.heap = IF id = 0 THEN @
                                ELSE [@ EXCEPT ![id].lock =
                                         SelectSeq(@, LAMBDA w : w # h)]]

\* join_lobby ends inside its try block, with an exception or without
Finally(s, c, pc) ==
    [cancel(s, heartbeat_task(c)) EXCEPT !.tasks[c].pc = pc]

\* the last statement of the disconnect handler
delete_if_empty(s, c) ==
    LET lobby_name == s.tasks[c].lobby_name
    IN  IF ~Has(s.lobbies, lobby_name) THEN Finally(s, c, "raised")
        ELSE IF s.heap[Get(s.lobbies, lobby_name)].players = <<>>
        THEN Finally([s EXCEPT !.lobbies = Del(@, lobby_name)], c, "returned")
        ELSE Finally(s, c, "returned")

\* reset_ready_states with the lock held: the loop goes over the keys of
\* players, and a key is a str, which takes no attribute
reset_ready_states(s, c) ==
    IF s.heap[s.tasks[c].self].players # <<>>
    THEN Finally(Release(s, c), c, "raised")
    ELSE delete_if_empty(Release(s, c), c)

RECURSIVE broadcast_next(_, _)
RECURSIVE broadcast_done(_, _)

\* messagePlayer with the lock held: send_text suspends; a name that left
\* the players is a KeyError, which broadcast logs and heartbeat dies of
messagePlayer(s, t) ==
    IF Has(s.heap[s.tasks[t].self].players, s.tasks[t].player)
    THEN [s EXCEPT !.tasks[t].pc = "send"]
    ELSE IF IsHeartbeat(t)
         THEN [Release(s, t) EXCEPT !.tasks[t].pc = "raised"]
         ELSE broadcast_next(Release(s, t), t)

\* add_player with the lock held, and join_lobby up to receive_text
add_player(s, c) ==
    LET f == s.tasks[c]
        s1 == Release([s EXCEPT !.heap[f.self].players =
                                    Put(@, f.player_name, Player(c))], c)
        s2 == [s1 EXCEPT !.tasks[heartbeat_task(c)] =
                            [Idle EXCEPT !.pc = "sleep",
                                         !.lobby_name = f.lobby_name,
                                         !.player_name = f.player_name]]
    IN  IF /\ Has(s2.lobbies, f.lobby_name)
           /\ Has(s2.heap[Get(s2.lobbies, f.lobby_name)].players, f.player_name)
        THEN [s2 EXCEPT !.tasks[c].pc = "receive", !.tasks[c].self = 0]
        ELSE Finally(s2, c, "raised")

\* Lobby.broadcast from its first statement
broadcast(s, c, id, message, excluded_players, then) ==
    broadcast_next(
        [s EXCEPT !.tasks[c].self = id,
                  !.tasks[c].message = message,
                  !.tasks[c].then = then,
                  !.tasks[c].targets =
                      SelectSeq(Keys(s.heap[id].players),
                                LAMBDA k : k \notin excluded_players)], c)

\* remove_player with the lock held, and the disconnect handler after it
remove_player(s, c) ==
    LET f == s.tasks[c]
        s1 == Release([s EXCEPT !.heap[f.self].players = Del(@, f.player_name)], c)
    IN  IF ~Has(s1.lobbies, f.lobby_name) THEN Finally(s1, c, "raised")
        ELSE LET id == Get(s1.lobbies, f.lobby_name)
             IN  IF all_ready(s1.heap[id].players)
                 THEN broadcast(s1, c, id, ALL_READY(FALSE), {}, "reset")
                 ELSE delete_if_empty(s1, c)

\* a task that called `async with self.lock` on Lobby id: it goes on if the
\* lock is its own, and waits at pc if not
Locked(s, t) ==
    CASE s.tasks[t].pc = "lock" -> messagePlayer(s, t)
      [] s.tasks[t].pc = "add_player" -> add_player(s, t)
      [] s.tasks[t].pc = "remove_player" -> remove_player(s, t)
      [] s.tasks[t].pc = "reset_ready_states" -> reset_ready_states(s, t)

Lock(s, t, id, pc) ==
    LET s1 == Enqueue([s EXCEPT !.tasks[t].self = id, !.tasks[t].pc = pc], t, id)
    IN  IF Holds(s1, t) THEN Locked(s1, t) ELSE s1

\* the loop of broadcast from the next name of its list on
broadcast_next(s, c) ==
    IF s.tasks[c].targets = <<>> THEN broadcast_done(s, c)
    ELSE Lock([s EXCEPT !.tasks[c].player = Head(s.tasks[c].targets),
                        !.tasks[c].targets = Tail(@)],
              c, s.tasks[c].self, "lock")

\* what follows the broadcast that returned: the all-ready test of
\* handle_action, receive_text again, or reset_ready_states
broadcast_done(s, c) ==
    LET f == s.tasks[c]
        back == [s EXCEPT !.tasks[c].pc = "receive", !.tasks[c].self = 0,
                          !.tasks[c].player = "", !.tasks[c].then = "",
                          !.tasks[c].message = NoMessage]
    IN  CASE f.then = "receive" -> back
          [] f.then = "all_ready" ->
                IF ~Has(s.lobbies, f.lobby_name) THEN Finally(s, c, "raised")
                ELSE LET id == Get(s.lobbies, f.lobby_name)
                     IN  IF all_ready(s.heap[id].players)
                         THEN broadcast(s, c, id, ALL_READY(TRUE), {}, "receive")
                         ELSE back
          [] f.then = "reset" ->
                IF ~Has(s.lobbies, f.lobby_name) THEN Finally(s, c, "raised")
                ELSE Lock(s, c, Get(s.lobbies, f.lobby_name), "reset_ready_states")

\* handle_action on the action that parse_action gave
handle_action(s, c, action) ==
    LET f == s.tasks[c]
        s1 == [s EXCEPT !.tasks[c].action = action]
    IN  IF action.type # "ready" THEN s1
        ELSE IF ~Has(s.lobbies, f.lobby_name) THEN Finally(s1, c, "raised")
        ELSE LET id == Get(s.lobbies, f.lobby_name)
             IN  IF ~Has(s.heap[id].players, f.player_name)
                 THEN Finally(s1, c, "raised")
                 ELSE broadcast(
                         [s1 EXCEPT !.heap[id].players =
                             Put(@, f.player_name,
                                 [Get(@, f.player_name) EXCEPT !.ready = TRUE])],
                         c, id, READY_STATE(f.player_name, action.is_ready),
                         {f.player_name}, "all_ready")
\* the step that took the server to s, made by the call `name` with `a`
Becomes(s, name, a, exception) ==
    /\ lobbies' = s.lobbies
    /\ heap' = s.heap
    /\ tasks' = s.tasks
    /\ op' = name
    /\ args' = a
    /\ raised' = exception
    /\ UNCHANGED <<game, options, calls, acted, prob_model, node>>

\* the task ended with an exception in the step to s
Ended(s, t) == tasks[t].pc # s.tasks[t].pc /\ s.tasks[t].pc \in {"raised", "closed"}

ServerInit ==
    /\ game = GameState(2)
    /\ op = "__init__"
    /\ args = <<>>
    /\ raised = FALSE
    /\ options = <<>>
    /\ calls = 0
    /\ acted = {0}
    /\ prob_model = None
    /\ node = None
    /\ lobbies = <<>>
    /\ heap = <<>>
    /\ tasks = [t \in Tasks |-> Idle]

CreateLobby ==
    \E lobby_name \in LobbyNames :
        /\ Len(heap) < MaxLobbies
        /\ IF Has(lobbies, lobby_name)
           THEN Becomes(Server, "create_lobby", <<0, lobby_name>>, TRUE)
           ELSE Becomes([Server EXCEPT
                            !.heap = Append(@, Lobby(lobby_name)),
                            !.lobbies = Put(@, lobby_name, Len(heap) + 1)],
                        "create_lobby", <<0, lobby_name>>, FALSE)

DeleteLobby ==
    \E lobby_name \in LobbyNames :
        IF Has(lobbies, lobby_name)
        THEN Becomes([Server EXCEPT !.lobbies = Del(@, lobby_name)],
                     "delete_lobby", <<0, lobby_name>>, FALSE)
        ELSE Becomes(Server, "delete_lobby", <<0, lobby_name>>, TRUE)

\* join_lobby up to the close of the websocket or to accept
JoinLobby ==
    \E c \in Connections, lobby_name \in LobbyNames, player_name \in JoinNames :
        /\ tasks[c].pc = "idle"
        /\ LET known == /\ Has(lobbies, lobby_name)
                        /\ ~Has(heap[Get(lobbies, lobby_name)].players, player_name)
               s == [Server EXCEPT
                        !.tasks[c] = [Idle EXCEPT
                            !.pc = IF known THEN "accept" ELSE "closed",
                            !.lobby_name = lobby_name,
                            !.player_name = player_name]]
           IN  Becomes(s, "join_lobby", <<c, lobby_name, player_name>>, ~known)

\* accept returned: join_lobby goes on to add_player
Accept ==
    \E c \in Connections :
        /\ tasks[c].pc = "accept"
        /\ LET lobby_name == tasks[c].lobby_name
               s == IF Has(lobbies, lobby_name)
                    THEN Lock(Server, c, Get(lobbies, lobby_name), "add_player")
                    ELSE [Server EXCEPT !.tasks[c].pc = "raised"]
           IN  Becomes(s, "accept", <<c>>, Ended(s, c))

\* the lock a task waits for is its own
Acquire ==
    \E t \in Tasks :
        /\ tasks[t].pc \in {"lock", "add_player", "remove_player", "reset_ready_states"}
        /\ Holds(Server, t)
        /\ LET s == Locked(Server, t)
           IN  Becomes(s, "acquire", <<t>>, Ended(s, t))

\* send_text returned: messagePlayer ends, and broadcast or heartbeat goes on
SendText ==
    \E t \in Tasks :
        /\ tasks[t].pc = "send"
        /\ LET s1 == Release(Server, t)
               s == IF IsHeartbeat(t)
                    THEN [s1 EXCEPT !.tasks[t].pc = "sleep", !.tasks[t].self = 0]
                    ELSE broadcast_next(s1, t)
               player == Get(heap[tasks[t].self].players, tasks[t].player)
           IN  Becomes(s, "send_text", <<t, player.webSocket, tasks[t].message>>,
                       Ended(s, t))

\* receive_text returned a text
ReceiveText ==
    \E c \in Connections, data \in Data :
        /\ tasks[c].pc = "receive"
        /\ LET f == tasks[c]
               there == /\ Has(lobbies, f.lobby_name)
                        /\ Has(heap[Get(lobbies, f.lobby_name)].players, f.player_name)
               s == IF data = "pong"
                    THEN IF there THEN Server ELSE Finally(Server, c, "raised")
                    ELSE IF parse_action(data).err THEN Server
                    ELSE handle_action(Server, c, parse_action(data).value)
           IN  Becomes(s, "receive_text", <<c, data>>, Ended(s, c))

\* receive_text raised WebSocketDisconnect
Disconnect ==
    \E c \in Connections :
        /\ tasks[c].pc = "receive"
        /\ LET lobby_name == tasks[c].lobby_name
               s == IF Has(lobbies, lobby_name)
                    THEN Lock(Server, c, Get(lobbies, lobby_name), "remove_player")
                    ELSE Finally(Server, c, "raised")
           IN  Becomes(s, "WebSocketDisconnect", <<c>>, Ended(s, c))

\* the sleep of heartbeat is over
Heartbeat ==
    \E c \in Connections :
        LET h == heartbeat_task(c)
            f == tasks[h]
        IN  /\ f.pc = "sleep"
            /\ LET s == IF Has(lobbies, f.lobby_name)
                        THEN Lock([Server EXCEPT !.tasks[h].player = f.player_name,
                                                 !.tasks[h].message = Ping],
                                  h, Get(lobbies, f.lobby_name), "lock")
                        ELSE [Server EXCEPT !.tasks[h].pc = "raised"]
               IN  Becomes(s, "heartbeat", <<h>>, Ended(s, h))

ServerNext ==
    \/ CreateLobby \/ DeleteLobby \/ JoinLobby \/ Accept \/ Acquire
    \/ SendText \/ ReceiveText \/ Disconnect \/ Heartbeat

ServerSpec == ServerInit /\ [][ServerNext]_vars

\* C37: unique player per lobby under concurrency: in every interleaving of
\* join_lobby handlers and disconnects, no two connections are in the loop of
\* join_lobby under the same player name of the same lobby; a join under a name
\* the lobby's players hold is closed and changes neither the lobbies nor their
\* players; and the remove_player of a disconnecting connection takes away no
\* entry that holds the websocket of another connection.
UniquePlayerPerLobby ==
    [][/\ \A c, d \in Connections :
              (/\ c # d
               /\ tasks'[c].lobby_name = tasks'[d].lobby_name
               /\ tasks'[c].player_name = tasks'[d].player_name)
              => ~(/\ \/ tasks'[c].pc = "receive"
                      \/ /\ tasks'[c].pc \in {"lock", "send"}
                         /\ tasks'[c].then \in {"all_ready", "receive"}
                   /\ \/ tasks'[d].pc = "receive"
                      \/ /\ tasks'[d].pc \in {"lock", "send"}
                         /\ tasks'[d].then \in {"all_ready", "receive"})
       /\ (/\ op' = "join_lobby"
           /\ Has(lobbies, args'[2])
           /\ Has(heap[Get(lobbies, args'[2])].players, args'[3]))
          => /\ tasks'[args'[1]].pc = "closed"
             /\ lobbies' = lobbies
             /\ heap' = heap
       /\ (\/ op' = "WebSocketDisconnect"
           \/ op' = "acquire" /\ tasks[args'[1]].pc = "remove_player")
          => \A id \in 1..Len(heap) : \A i \in 1..Len(heap[id].players) :
                 ~Has(heap'[id].players, heap[id].players[i].key)
                 => heap[id].players[i].value.webSocket = args'[1]]_vars

\* C38: all-ready signal: a broadcast of ALL_READY with all_ready = true starts
\* only in a state where the latest 'ready' action of every player of the
\* lobby carried is_ready = true; and when the handler of a disconnect that
\* broadcast ALL_READY with all_ready = false ends, the ready flag of every
\* player that remains in the lobby is false.
AllReadySignal ==
    [][\A c \in Connections :
          /\ (/\ tasks[c].message # ALL_READY(TRUE)
              /\ tasks'[c].message = ALL_READY(TRUE))
             => \A i \in 1..Len(heap'[tasks'[c].self].players) :
                    LET player == heap'[tasks'[c].self].players[i].value
                    IN  tasks'[player.webSocket].action
                            = [type |-> "ready", is_ready |-> TRUE]
          /\ (/\ tasks[c].pc \notin {"returned", "raised"}
              /\ tasks'[c].pc \in {"returned", "raised"}
              /\ tasks'[c].message = ALL_READY(FALSE))
             => \A i \in 1..Len(heap'[tasks'[c].self].players) :
                    ~heap'[tasks'[c].self].players[i].value.ready]_vars

============================================================================
